---- MODULE Spec2Model ----
(***************************************************************************)
(* RustScan: the probe engine (Scanner::run, scan_socket, scan_udp_socket, *)
(* SocketIterator) and the part of main that drives it, as a state machine.*)
(*                                                                         *)
(* Texts (error messages, formatted addresses) are sequences of one-       *)
(* character strings, so that to_lowercase, contains, push_str and the     *)
(* Display conversions are computed and not assumed.                       *)
(*                                                                         *)
(* Spec and LiveSpec are a whole scan. NewSpec (Scanner::new), IterSpec    *)
(* (SocketIterator), RangeSpec (RangeIterator), PickSpec                   *)
(* (PortStrategy::pick and order), ParseSpec (parse_addresses), BatchSpec  *)
(* (infer_batch_size), CapSpec (run near the cap of its error set),        *)
(* MergeSpec (Opts::merge), PayloadSpec (the payload lookup of             *)
(* scan_udp_socket) and ReversedSpec (PortStrategy::order for ranges with  *)
(* start > end, in u32) run one part alone over wider inputs.              *)
(* Random draws are choices over everything the generator can return, and  *)
(* so is the build: arithmetic overflow panics or wraps.                   *)
(***************************************************************************)
EXTENDS Integers, Sequences, FiniteSets, TLC

\* ------------------------------------------------------------------ bounds
MaxIps == 2      \* at most this many resolved IPs
MaxPort == 2     \* ports are drawn from 1..MaxPort, port lists hold at most MaxPort entries
MaxBatch == 2    \* batch_size is drawn from 0..MaxBatch
MaxTries == 2    \* the tries argument of Scanner::new is drawn from 0..MaxTries
MaxIterLen == 3  \* SocketIterator alone: IP and port lists hold at most MaxIterLen entries
MaxRangeEnd == 9 \* port strategies alone: ranges lie in 1..MaxRangeEnd
MaxList == 3     \* port strategies alone: port lists hold at most MaxList entries

\* ------------------------------------------------------- program constants
EXIT_NO_IPS == 1          \* std::process::exit(1) when no IP was resolved
EXIT_OK == 0              \* main returns
EXIT_PANIC_UNWIND == 101  \* a panic of the main thread, unwinding build
EXIT_PANIC_ABORT == 134   \* a panic of the main thread, panic = "abort" build (SIGABRT)
ERRORS_PER_IP == 1000     \* the cap of the error set is ips.len() * 1000
U8_MAX == 255             \* tries: u8
COPRIME_DRAWS == 10       \* pick_random_coprime: `for _ in 0..10`
DEFAULT_BATCH_SIZE == 4500  \* Opts: batch_size, default_value = "4500"
DEFAULT_TRIES == 1          \* Opts: tries, default_value = "1"
DEFAULT_FILE_DESCRIPTORS_LIMIT == 8000  \* const DEFAULT_FILE_DESCRIPTORS_LIMIT
AVERAGE_BATCH_SIZE == 3000              \* const AVERAGE_BATCH_SIZE
RESERVED_DESCRIPTORS == 100             \* infer_batch_size: `ulimit - 100`
HINT_SLACK == 2                         \* infer_batch_size: `ulimit + 2`

\* Option: None is the empty sequence, Some(x) is <<x>>
None == <<>>
Some(x) == <<x>>

\* -------------------------------------------------------------------- text
UPPER == <<"A","B","C","D","E","F","G","H","I","J","K","L","M","N","O","P","Q","R","S","T","U","V","W","X","Y","Z">>
LOWER == <<"a","b","c","d","e","f","g","h","i","j","k","l","m","n","o","p","q","r","s","t","u","v","w","x","y","z">>
DIGITS == <<"0","1","2","3","4","5","6","7","8","9">>

\* The needle of the assert! of scan_socket.
TOO_MANY_OPEN_FILES == <<"t","o","o"," ","m","a","n","y"," ","o","p","e","n"," ","f","i","l","e","s">>

\* The texts of the io::Error values a connect, bind, send or recv can fail with.
ERR_CONNECTION_REFUSED == <<"C","o","n","n","e","c","t","i","o","n"," ","r","e","f","u","s","e","d"," ","(","o","s"," ","e","r","r","o","r"," ","1","1","1",")">>
ERR_TIMED_OUT == <<"f","u","t","u","r","e"," ","t","i","m","e","d"," ","o","u","t">>
ERR_EMFILE == <<"T","o","o"," ","m","a","n","y"," ","o","p","e","n"," ","f","i","l","e","s"," ","(","o","s"," ","e","r","r","o","r"," ","2","4",")">>
UDP_TIMED_OUT_PREFIX == <<"U","D","P"," ","s","c","a","n"," ","t","i","m","e","d","-","o","u","t"," ","f","o","r"," ","a","l","l"," ","t","r","i","e","s"," ","o","n"," ","s","o","c","k","e","t"," ">>

\* char::to_lowercase on the ASCII letters
to_lowercase_char(c) ==
    IF \E i \in 1..26 : UPPER[i] = c
    THEN LOWER[CHOOSE i \in 1..26 : UPPER[i] = c]
    ELSE c

\* str::to_lowercase
to_lowercase(s) == [i \in 1..Len(s) |-> to_lowercase_char(s[i])]

\* str::contains
contains(hay, needle) ==
    \E i \in 0..(Len(hay) - Len(needle)) :
        SubSeq(hay, i + 1, i + Len(needle)) = needle

\* the decimal Display of an unsigned integer
RECURSIVE to_string_int(_)
to_string_int(n) ==
    IF n < 10 THEN <<DIGITS[n + 1]>>
    ELSE to_string_int(n \div 10) \o <<DIGITS[(n % 10) + 1]>>

\* the Display of an IPv4 address (held as its 32-bit value): dotted decimal
to_string_ip(ip) ==
    to_string_int(ip \div 16777216) \o <<".">> \o
    to_string_int((ip \div 65536) % 256) \o <<".">> \o
    to_string_int((ip \div 256) % 256) \o <<".">> \o
    to_string_int(ip % 256)

\* the Display of a SocketAddr (V4): ip:port
to_string_socket(socket) ==
    to_string_ip(socket.ip) \o <<":">> \o to_string_int(socket.port)

\* ------------------------------------------------------------ environment
\* The outcomes of one connect attempt (Scanner::connect): a stream, or an io::Error.
ConnectOutcomes == {"ok", "refused", "timedout", "emfile"}
\* The outcomes of one udp_scan: a datagram, a receive timeout, or an io::Error of
\* bind, connect, send or recv.
UdpOutcomes == {"reply", "recv_timeout", "refused", "emfile"}

\* io::Error::to_string of the error an attempt failed with
error_to_string(kind) ==
    CASE kind = "refused" -> ERR_CONNECTION_REFUSED
      [] kind = "timedout" -> ERR_TIMED_OUT
      [] kind = "emfile" -> ERR_EMFILE

\* 10.0.0.1, 10.0.0.2, ...: the resolved IPs of the model
IpAt(i) == 10 * 16777216 + i
AllIps == [i \in 1..MaxIps |-> IpAt(i)]
PortUniverse == 1..MaxPort

SeqsUpTo(S, n) == UNION {[1..k -> S] : k \in 0..n}

\* ----------------------------------------------------------- port strategy
\* PortStrategy::Manual(ports), PortStrategy::Serial(SerialRange {start, end}) and
\* PortStrategy::Random(RandomRange {start, end})
Manual(l) == [kind |-> "Manual", ports |-> l, start |-> 0, end |-> 0]
Serial(s, e) == [kind |-> "Serial", ports |-> <<>>, start |-> s, end |-> e]
Random(s, e) == [kind |-> "Random", ports |-> <<>>, start |-> s, end |-> e]

\* The strategies a Scanner is built with: a random range has start <= end here.
Strategies ==
    {Manual(l) : l \in SeqsUpTo(PortUniverse, MaxPort)}
    \cup {Serial(s, e) : s \in PortUniverse, e \in PortUniverse}
    \cup {Random(r[1], r[2]) : r \in {x \in PortUniverse \X PortUniverse : x[1] <= x[2]}}

\* SerialRange::generate: (start..=end).collect()
SerialRange_generate_descending(start, end) ==
    IF start > end THEN <<>> ELSE [i \in 1..(end - start + 1) |-> end - i + 1]

SerialRange_generate(start, end) ==
    IF start > end THEN <<>> ELSE [i \in 1..(end - start + 1) |-> start + i - 1]

\* num::Integer::gcd
RECURSIVE gcd(_, _)
gcd(a, b) == IF b = 0 THEN a ELSE gcd(b, a % b)

\* pick_random_coprime: the candidates rng.random_range(lower_range..upper_range) draws from
Candidates_from_zero(end) == 0..(end - (end \div 4) - 1)

Candidates(end) ==
    LET range_boundary == end \div 4
        lower_range == range_boundary
        upper_range == end - range_boundary
    IN  lower_range..(upper_range - 1)

\* pick_random_coprime: the values the loop can return from its iteration i on, over
\* all draws: a coprime candidate returns, any other is drawn again, and after
\* COPRIME_DRAWS iterations the result is end - 1
RECURSIVE pick_random_coprime_from(_, _)
pick_random_coprime_from(end, i) ==
    IF i = COPRIME_DRAWS THEN {end - 1}
    ELSE {c \in Candidates(end) : gcd(end, c) = 1}
         \cup (IF \E c \in Candidates(end) : gcd(end, c) # 1
                THEN pick_random_coprime_from(end, i + 1) ELSE {})

pick_random_coprime_any(end) == Candidates(end)

pick_random_coprime_one(end) == {1}

pick_random_coprime(end) == pick_random_coprime_from(end, 0)

\* RangeIterator::new, for the step and the first pick its two random draws produced
RangeIterator_new(start, end, step, first_pick) ==
    [active |-> TRUE, normalized_end |-> end - start + 1, step |-> step,
     normalized_first_pick |-> first_pick, normalized_pick |-> first_pick,
     actual_start |-> start]

\* the draws of RangeIterator::new: the step and the first pick
RangeDraws(start, end) ==
    LET normalized_end == end - start + 1
    IN  {[step |-> s, first_pick |-> f] :
            s \in pick_random_coprime(normalized_end), f \in 0..(normalized_end - 1)}

\* RangeIterator::next: the item (a port, or None) and the iterator afterwards
RangeIterator_next(it) ==
    IF ~it.active THEN [item |-> None, it |-> it]
    ELSE LET current_pick == it.normalized_pick
             next_pick == (current_pick + it.step) % it.normalized_end
         IN  [item |-> Some(it.actual_start + current_pick),
              it |-> [it EXCEPT !.active = IF next_pick = it.normalized_first_pick
                                           THEN FALSE ELSE @,
                                !.normalized_pick = next_pick]]

\* Iterator::collect
RECURSIVE collect(_)
collect(it) ==
    LET r == RangeIterator_next(it)
    IN  IF r.item = None THEN <<>> ELSE <<r.item[1]>> \o collect(r.it)

\* RandomRange::generate: RangeIterator::new(start, end).collect()
RandomRange_generate(start, end, draws) ==
    collect(RangeIterator_new(start, end, draws.step, draws.first_pick))

\* the random draws a call of order() makes: those of RangeIterator::new for Random,
\* none for the other strategies
NoDraws == [step |-> 0, first_pick |-> 0]
OrderDraws(strategy) ==
    IF strategy.kind = "Random" THEN RangeDraws(strategy.start, strategy.end) ELSE {NoDraws}

\* PortStrategy::order
order(strategy, draws) ==
    CASE strategy.kind = "Manual" -> strategy.ports
      [] strategy.kind = "Serial" -> SerialRange_generate(strategy.start, strategy.end)
      [] strategy.kind = "Random" -> RandomRange_generate(strategy.start, strategy.end, draws)

\* slice::swap
swap(v, i, j) == [v EXCEPT ![i] = v[j], ![j] = v[i]]

\* SliceRandom::shuffle (Fisher-Yates): position i is swapped with the drawn position
\* choice[i] <= i, for each i in turn
RECURSIVE shuffle_from(_, _, _)
shuffle_from(v, choice, i) ==
    IF i > Len(v) THEN v ELSE shuffle_from(swap(v, i, choice[i]), choice, i + 1)

shuffle_overwrites(v, choice) ==
    [i \in 1..Len(v) |-> v[choice[i]]]

shuffle(v, choice) == shuffle_from(v, choice, 1)

\* the draws of one shuffle of n elements
ShuffleDraws(n) == {c \in [1..n -> 1..n] : \A i \in 1..n : c[i] <= i}

\* PortStrategy::pick: range and ports are Options, scan_order is "Serial" or "Random";
\* range.unwrap() and ports.unwrap() of a None panic
pick(range, port_list, scan_order, choice) ==
    IF port_list = None
    THEN IF range = None THEN [kind |-> "panic", ports |-> <<>>, start |-> 0, end |-> 0]
         ELSE IF scan_order = "Serial" THEN Serial(range[1].start, range[1].end)
         ELSE Random(range[1].start, range[1].end)
    ELSE IF scan_order = "Serial" THEN Manual(port_list[1])
    ELSE Manual(shuffle(port_list[1], choice))

\* Vec::contains
vec_contains(v, x) == \E i \in 1..Len(v) : v[i] = x

\* .iter().filter(|&port| !self.exclude_ports.contains(port)).copied().collect()
filter_excluded_nothing(v, exclude) == v

RECURSIVE filter_excluded(_, _)
filter_excluded(v, exclude) ==
    IF v = <<>> THEN <<>>
    ELSE IF vec_contains(exclude, Head(v)) THEN filter_excluded(Tail(v), exclude)
    ELSE <<Head(v)>> \o filter_excluded(Tail(v), exclude)

\* ------------------------------------------------------------------- usize
\* A usize of a 64-bit target: four 16-bit limbs, the most significant first.
USIZE_LIMBS == 4
LIMB == 65536

\* a small number as a usize; usize::MAX
usize(n) == [i \in 1..USIZE_LIMBS |-> IF i = USIZE_LIMBS THEN n ELSE 0]
USIZE_MAX == [i \in 1..USIZE_LIMBS |-> LIMB - 1]

\* x < y
RECURSIVE usize_lt_from(_, _, _)
usize_lt_from(x, y, i) ==
    IF i > USIZE_LIMBS THEN FALSE
    ELSE IF x[i] # y[i] THEN x[i] < y[i]
    ELSE usize_lt_from(x, y, i + 1)

usize_lt(x, y) == usize_lt_from(x, y, 1)

\* x + y: the sum modulo 2^64, and whether it overflowed
RECURSIVE usize_add_from(_, _, _, _)
usize_add_from(x, y, i, carry) ==
    IF i = 0 THEN [value |-> <<>>, overflow |-> carry = 1]
    ELSE LET sum == x[i] + y[i] + carry
             high == usize_add_from(x, y, i - 1, sum \div LIMB)
         IN  [value |-> Append(high.value, sum % LIMB), overflow |-> high.overflow]

usize_add(x, y) == usize_add_from(x, y, USIZE_LIMBS, 0)

\* x - y: the difference modulo 2^64, and whether it overflowed
RECURSIVE usize_sub_from(_, _, _, _)
usize_sub_from(x, y, i, borrow) ==
    IF i = 0 THEN [value |-> <<>>, overflow |-> borrow = 1]
    ELSE LET difference == x[i] - y[i] - borrow
             high == usize_sub_from(x, y, i - 1, IF difference < 0 THEN 1 ELSE 0)
         IN  [value |-> Append(high.value, difference % LIMB), overflow |-> high.overflow]

usize_sub(x, y) == usize_sub_from(x, y, USIZE_LIMBS, 0)

\* x / 2
usize_half(x) ==
    [i \in 1..USIZE_LIMBS |->
        (x[i] \div 2) + (IF i > 1 THEN (x[i - 1] % 2) * (LIMB \div 2) ELSE 0)]

\* ----------------------------------------------------------------- options
\* merge_required!: the field is taken from the config when the config has it
merge_required_field(value, config_value, default) ==
    IF config_value # None THEN config_value[1] ELSE value

\* merge_optional!: the field, an Option, is taken from the config when the config has it
merge_optional_field(value, config_value) ==
    IF config_value # None THEN config_value ELSE value

\* Opts::merge_required, over batch_size and tries
merge_required(o, c) ==
    [o EXCEPT !.batch_size = merge_required_field(@, c.batch_size, usize(DEFAULT_BATCH_SIZE)),
              !.tries = merge_required_field(@, c.tries, DEFAULT_TRIES)]

\* Opts::merge_optional, over ports and ulimit
merge_optional(o, c) ==
    [o EXCEPT !.ports = IF o.top /\ c.ports # None THEN c.ports ELSE @,
              !.ulimit = merge_optional_field(@, c.ulimit)]

\* Opts::merge
merge(o, c) == IF ~o.no_config THEN merge_optional(merge_required(o, c), c) ELSE o

\* ------------------------------------------------------------- batch size
\* An arithmetic result in a build with overflow checks (a debug build) and in one
\* without (a release build): the panic "attempt to add (subtract) with overflow", or
\* the value modulo 2^64.
arithmetic(result, overflow_checks) ==
    [panic |-> result.overflow /\ overflow_checks, value |-> result.value]

\* infer_batch_size, the branch taken when ulimit < batch_size
lowered_to_average(limit, overflow_checks) ==
    [panic |-> FALSE, value |-> usize(AVERAGE_BATCH_SIZE)]

lowered(limit, overflow_checks) ==
    IF usize_lt(limit, usize(AVERAGE_BATCH_SIZE))
    THEN [panic |-> FALSE, value |-> usize_half(limit)]
    ELSE IF usize_lt(usize(DEFAULT_FILE_DESCRIPTORS_LIMIT), limit)
    THEN [panic |-> FALSE, value |-> usize(AVERAGE_BATCH_SIZE)]
    ELSE arithmetic(usize_sub(limit, usize(RESERVED_DESCRIPTORS)), overflow_checks)

\* infer_batch_size, the branch taken otherwise: `ulimit + 2 > batch_size` is evaluated
\* first; the hint formats `ulimit - 100` when the condition holds and detail! prints
hinted(o, limit, overflow_checks, printed) ==
    LET sum == arithmetic(usize_add(limit, usize(HINT_SLACK)), overflow_checks)
        difference == arithmetic(usize_sub(limit, usize(RESERVED_DESCRIPTORS)), overflow_checks)
    IN  IF sum.panic THEN [panic |-> TRUE, value |-> o.batch_size]
        ELSE IF usize_lt(o.batch_size, sum.value) /\ o.ulimit = None /\ printed
        THEN [panic |-> difference.panic, value |-> o.batch_size]
        ELSE [panic |-> FALSE, value |-> o.batch_size]

\* infer_batch_size: whether it panics, and else the batch size it returns
infer_batch_size_lowers_equal(o, limit, overflow_checks, printed) ==
    IF ~usize_lt(o.batch_size, limit)
    THEN lowered(limit, overflow_checks)
    ELSE hinted(o, limit, overflow_checks, printed)

infer_batch_size(o, limit, overflow_checks, printed) ==
    IF usize_lt(limit, o.batch_size)
    THEN lowered(limit, overflow_checks)
    ELSE hinted(o, limit, overflow_checks, printed)

\* ------------------------------------------------------ RangeIterator in u32
\* RangeIterator computes in u32. The operators of the port strategy above hold its
\* numbers as integers, which is exact while start <= end; these hold a u32 as two
\* 16-bit limbs, the most significant first, for the ranges with start > end, whose
\* `end - start + 1` overflows.
u32(n) == <<n \div LIMB, n % LIMB>>

u32_lt(x, y) == x[1] < y[1] \/ (x[1] = y[1] /\ x[2] < y[2])

\* x + y and x - y: the result modulo 2^32, and whether it overflowed
u32_add(x, y) ==
    LET low == x[2] + y[2]
        high == x[1] + y[1] + (low \div LIMB)
    IN  [value |-> <<high % LIMB, low % LIMB>>, overflow |-> high >= LIMB]

u32_sub(x, y) ==
    LET low == x[2] - y[2]
        high == x[1] - y[1] - (IF low < 0 THEN 1 ELSE 0)
    IN  [value |-> <<high % LIMB, low % LIMB>>, overflow |-> high < 0]

\* x / 2, x / 4 and x % n (n > 0)
u32_half(x) == <<x[1] \div 2, (x[2] \div 2) + (x[1] % 2) * (LIMB \div 2)>>
u32_quarter(x) == u32_half(u32_half(x))

RECURSIVE u32_rem(_, _)
u32_rem(x, n) == IF u32_lt(x, n) THEN x ELSE u32_rem(u32_sub(x, n).value, n)

\* num::Integer::gcd(a, b) == 1, by the binary algorithm: one step of it on two
\* numbers above 0 that are not both even, and the whole
u32_gcd_step(a, b) ==
    IF a[2] % 2 = 0 THEN <<u32_half(a), b>>
    ELSE IF b[2] % 2 = 0 THEN <<a, u32_half(b)>>
    ELSE IF u32_lt(a, b) THEN <<a, u32_sub(b, a).value>>
    ELSE <<u32_sub(a, b).value, b>>

RECURSIVE u32_gcd_is_one(_, _)
u32_gcd_is_one(a, b) ==
    CASE a = u32(0) -> b = u32(1)
      [] a # u32(0) /\ b = u32(0) -> a = u32(1)
      [] a # u32(0) /\ b # u32(0) /\ a[2] % 2 = 0 /\ b[2] % 2 = 0 -> FALSE
      [] OTHER -> \E next \in {u32_gcd_step(a, b)} : u32_gcd_is_one(next[1], next[2])

\* u16::try_from(x): Some(port), or None for a number above u16::MAX
try_into_u16_truncating(x) == Some(x[2])

try_into_u16(x) == IF x[1] = 0 THEN Some(x[2]) ELSE None

\* the panics of RangeIterator
PANIC_SUBTRACT == "attempt to subtract with overflow"
PANIC_ADD == "attempt to add with overflow"
PANIC_EMPTY_RANGE == "cannot sample empty range"
PANIC_CONVERT == "Could not convert u32 to u16"

\* The draws of rng.random_range(lower..upper) the model follows: the DrawSamples
\* lowest and highest numbers of the range, and those around the given numbers.
DrawSamples == 2
Sampled(lower, upper, around) ==
    {x \in {u32_add(lower, u32(k)).value : k \in 0..(DrawSamples - 1)}
            \cup {u32_sub(upper, u32(k)).value : k \in 1..DrawSamples}
            \cup around :
        ~u32_lt(x, lower) /\ u32_lt(x, upper)}

\* `end - start + 1` of RangeIterator::new
normalized_end_of(start, end, overflow_checks) ==
    LET difference == arithmetic(u32_sub(u32(end), u32(start)), overflow_checks)
        sum == arithmetic(u32_add(difference.value, u32(1)), overflow_checks)
    IN  [panic |-> IF difference.panic THEN PANIC_SUBTRACT
                   ELSE IF sum.panic THEN PANIC_ADD ELSE "",
         value |-> sum.value]

\* pick_random_coprime: lower_range and upper_range
u32_range(end) ==
    LET range_boundary == u32_quarter(end)
    IN  [lower |-> range_boundary, upper |-> u32_sub(end, range_boundary).value]

\* pick_random_coprime, where its range is not empty: the steps it can return over the
\* draws followed, a coprime candidate or, when a candidate can fail every time, end - 1
u32_pick_random_coprime(end) ==
    LET candidates == Sampled(u32_range(end).lower, u32_range(end).upper, {})
    IN  {c \in candidates : u32_gcd_is_one(end, c)}
        \cup (IF \E c \in candidates : ~u32_gcd_is_one(end, c)
              THEN {u32_sub(end, u32(1)).value} ELSE {})

\* rng.random_range(0..normalized_end): the first picks followed, among them those
\* around the last one that start takes to a port
u32_first_picks(start, normalized_end) ==
    Sampled(u32(0), normalized_end,
            {u32((LIMB - 1) - start + k) : k \in 0..DrawSamples})

\* RangeIterator::next in u32: the panic if there is one, the item and the iterator
u32_next(it, overflow_checks) ==
    IF ~it.active THEN [panic |-> "", item |-> None, it |-> it]
    ELSE LET current_pick == it.normalized_pick
             sum == arithmetic(u32_add(current_pick, it.step), overflow_checks)
             next_pick == u32_rem(sum.value, it.normalized_end)
             port == arithmetic(u32_add(it.actual_start, current_pick), overflow_checks)
         IN  IF sum.panic \/ port.panic THEN [panic |-> PANIC_ADD, item |-> None, it |-> it]
             ELSE IF try_into_u16(port.value) = None
             THEN [panic |-> PANIC_CONVERT, item |-> None, it |-> it]
             ELSE [panic |-> "", item |-> try_into_u16(port.value),
                   it |-> [it EXCEPT !.active = IF next_pick = it.normalized_first_pick
                                                THEN FALSE ELSE @,
                                     !.normalized_pick = next_pick]]

\* --------------------------------------------------------- target resolver
\* Vec::is_empty
is_empty_never(v) == FALSE

is_empty(v) == v = <<>>

\* An address string is held as what the parsers, the resolvers and the file system
\* answer for it: kind "ip" (a literal, addr), "cidr" (addr/prefix, host bits may be
\* set), "host" (system: what the OS resolves "name:80" to, backup: what the backup
\* resolver finds, <<>> when the lookup fails), "hostport" (a name with a port,
\* system: what the OS resolves it to), "file" (a path of a regular file:
\* its lines, and whether it can be opened) and "bad" (none of these).
Address(kind, addr, prefix, system, backup, lines, readable) ==
    [kind |-> kind, addr |-> addr, prefix |-> prefix, system |-> system, backup |-> backup,
     lines |-> lines, readable |-> readable]
IpString(i) == Address("ip", IpAt(i), 32, <<>>, <<>>, <<>>, FALSE)
CidrString(i, prefix) == Address("cidr", IpAt(i), prefix, <<>>, <<>>, <<>>, FALSE)
HostString(system, backup) == Address("host", 0, 0, system, backup, <<>>, FALSE)
HostPortString(system) == Address("hostport", 0, 0, system, <<>>, <<>>, FALSE)
FileString(lines, readable) == Address("file", 0, 0, <<>>, <<>>, lines, readable)
BadString == Address("bad", 0, 0, <<>>, <<>>, <<>>, FALSE)

\* IpAddr::from_str
IpAddr_from_str(address) == IF address.kind = "ip" THEN Some(address.addr) ELSE None

\* the number of addresses of a block of this prefix length
HostCount(prefix) == 2 ^ (32 - prefix)

\* IpInet::from_str: an address and a prefix length, host bits kept
IpInet_from_str(address) ==
    IF address.kind = "cidr" THEN Some([addr |-> address.addr, prefix |-> address.prefix])
    ELSE None

\* IpInet::network: the block, host bits cleared
network(inet) == [addr |-> inet.addr - (inet.addr % HostCount(inet.prefix)), prefix |-> inet.prefix]

\* IpCidr::into_iter().addresses().collect()
addresses(cidr) == [i \in 1..HostCount(cidr.prefix) |-> cidr.addr + i - 1]

\* IpCidr::new_host
new_host(ip) == [addr |-> ip, prefix |-> 32]

\* IpCidr::from_str: a block whose host bits are zero, or a single address
IpCidr_from_str(address) ==
    CASE address.kind = "ip" -> Some(new_host(address.addr))
      [] address.kind = "cidr" /\ address.addr % HostCount(address.prefix) = 0
            -> Some([addr |-> address.addr, prefix |-> address.prefix])
      [] OTHER -> None

\* IpCidr::contains
cidr_contains_network_only(cidr, ip) == ip = cidr.addr

cidr_contains(cidr, ip) ==
    ip \div HostCount(cidr.prefix) = cidr.addr \div HostCount(cidr.prefix)

\* str::to_socket_addrs: appended tells whether ":80" was appended to the string. A
\* string that names no port is no socket address, nor is one that names two. None
\* is Err.
to_socket_addrs(address, appended) ==
    IF address.system # <<>> /\ address.kind = (IF appended THEN "host" ELSE "hostport")
    THEN Some(address.system)
    ELSE None

\* Resolver::lookup_ip. None is Err.
lookup_ip(address) ==
    IF address.kind = "host" /\ address.backup # <<>> THEN Some(address.backup) ELSE None

\* resolve_ips_from_host
resolve_ips_from_host(source) ==
    IF to_socket_addrs(source, FALSE) # None THEN to_socket_addrs(source, FALSE)[1]
    ELSE IF lookup_ip(source) # None THEN lookup_ip(source)[1]
    ELSE <<>>

\* parse_address
parse_address(address) ==
    IF IpAddr_from_str(address) # None THEN <<IpAddr_from_str(address)[1]>>
    ELSE IF IpInet_from_str(address) # None THEN addresses(network(IpInet_from_str(address)[1]))
    ELSE IF to_socket_addrs(address, TRUE) # None THEN <<to_socket_addrs(address, TRUE)[1][1]>>
    ELSE resolve_ips_from_host(address)

\* Vec::extend
extend_front(v, w) == w \o v

extend(v, w) == v \o w

\* read_ips_from_file: the IPs of every line, None when the file cannot be opened
RECURSIVE lines_ips(_)
lines_ips(lines) ==
    IF lines = <<>> THEN <<>> ELSE extend(parse_address(Head(lines)), lines_ips(Tail(lines)))

read_ips_from_file(path) == IF path.readable THEN Some(lines_ips(path.lines)) ELSE None

\* Path::is_file
is_file(path) == path.kind = "file"

\* parse_addresses, first loop: the IPs of the inputs that parse or resolve, and the
\* inputs that yield nothing
RECURSIVE first_loop(_, _)
first_loop(input_addresses, acc) ==
    IF input_addresses = <<>> THEN acc
    ELSE LET address == Head(input_addresses)
             parsed_ips == parse_address(address)
         IN  first_loop(Tail(input_addresses),
                        IF ~is_empty(parsed_ips)
                        THEN [acc EXCEPT !.ips = extend(@, parsed_ips)]
                        ELSE [acc EXCEPT !.unresolved_addresses = Append(@, address)])

\* warning!("Host {file_path:?} could not be resolved."); continue
warn_and_stop(acc, file_path) ==
    [acc EXCEPT !.ips = <<>>, !.unresolved_addresses = <<>>, !.warned = Append(@, file_path)]

warn_and_continue(acc, file_path) ==
    [acc EXCEPT !.unresolved_addresses = Tail(@), !.warned = Append(@, file_path)]

\* parse_addresses, second loop: every input that yielded nothing is read as a file
RECURSIVE second_loop(_)
second_loop(acc) ==
    IF acc.unresolved_addresses = <<>> THEN acc
    ELSE LET file_path == Head(acc.unresolved_addresses)
         IN  IF ~is_file(file_path) THEN second_loop(warn_and_continue(acc, file_path))
             ELSE IF read_ips_from_file(file_path) # None
             THEN second_loop([acc EXCEPT !.ips = extend(@, read_ips_from_file(file_path)[1]),
                                          !.unresolved_addresses = Tail(@)])
             ELSE second_loop(warn_and_continue(acc, file_path))

\* parse_single_excluded_address
parse_single_excluded_address(addr) ==
    IF IpCidr_from_str(addr) # None THEN <<IpCidr_from_str(addr)[1]>>
    ELSE IF IpAddr_from_str(addr) # None THEN <<new_host(IpAddr_from_str(addr)[1])>>
    ELSE [i \in 1..Len(resolve_ips_from_host(addr)) |-> new_host(resolve_ips_from_host(addr)[i])]

\* parse_excluded_networks: exclude_addresses is an Option of a list
RECURSIVE flat_map_excluded(_)
flat_map_excluded(list) ==
    IF list = <<>> THEN <<>>
    ELSE parse_single_excluded_address(Head(list)) \o flat_map_excluded(Tail(list))

parse_excluded_networks(exclude_addresses) ==
    IF exclude_addresses = None THEN <<>> ELSE flat_map_excluded(exclude_addresses[1])

\* ips.retain(|ip| seen.insert(*ip) && !excluded_cidrs.iter().any(|cidr| cidr.contains(ip)))
RECURSIVE retain_from(_, _, _)
retain_from(ip_list, seen, excluded_cidrs) ==
    IF ip_list = <<>> THEN <<>>
    ELSE LET ip == Head(ip_list)
             keep == ip \notin seen
                     /\ ~\E c \in 1..Len(excluded_cidrs) : cidr_contains(excluded_cidrs[c], ip)
         IN  (IF keep THEN <<ip>> ELSE <<>>)
             \o retain_from(Tail(ip_list), seen \cup {ip}, excluded_cidrs)

retain_duplicates(ip_list, excluded_cidrs) ==
    LET not_excluded(ip) ==
            ~\E c \in 1..Len(excluded_cidrs) : cidr_contains(excluded_cidrs[c], ip)
    IN  SelectSeq(ip_list, not_excluded)

retain(ip_list, excluded_cidrs) == retain_from(ip_list, {}, excluded_cidrs)

\* parse_addresses, before the duplicates and the excluded IPs are removed
expand(input) ==
    second_loop(first_loop(input.addresses,
                           [ips |-> <<>>, unresolved_addresses |-> <<>>, warned |-> <<>>]))

\* parse_addresses: the IPs, and the inputs warned about
parse_addresses(input) ==
    [ips |-> retain(expand(input).ips, parse_excluded_networks(input.exclude_addresses)),
     warned |-> expand(input).warned]

\* --------------------------------------------------------- socket iterator
\* itertools' Product over (ports_it, ips_it): a counts the ports taken from the outer
\* iterator, b the IPs taken from the inner one since its last reset, a_cur is the
\* current outer item: -1 not fetched yet, 0 fetched and exhausted, k the k-th port.
SocketIterator_new == [a |-> 0, a_cur |-> -1, b |-> 0]

\* Product::next: the item (a socket, or None) and the iterator afterwards
Product_next(it, ip_list, port_list) ==
    LET a_next(a) == IF a < Len(port_list) THEN a + 1 ELSE 0
        a_after(a) == IF a < Len(port_list) THEN a + 1 ELSE a
    IN  IF it.b < Len(ip_list)
        THEN \* b.next() is Some: a_cur.get_or_insert_with(|| a.next())
             LET cur == IF it.a_cur = -1 THEN a_next(it.a) ELSE it.a_cur
                 a2 == IF it.a_cur = -1 THEN a_after(it.a) ELSE it.a
             IN  [item |-> IF cur = 0 THEN None
                           ELSE Some([ip |-> ip_list[it.b + 1], port |-> port_list[cur]]),
                  it |-> [a |-> a2, a_cur |-> cur, b |-> it.b + 1]]
        ELSE IF Len(ip_list) = 0
        THEN \* b is reset and is still empty: return None
             [item |-> None, it |-> [it EXCEPT !.b = 0]]
        ELSE \* b is reset, its first item taken, and a advances
             LET cur == a_next(it.a)
             IN  [item |-> IF cur = 0 THEN None
                           ELSE Some([ip |-> ip_list[1], port |-> port_list[cur]]),
                  it |-> [a |-> a_after(it.a), a_cur |-> cur, b |-> 1]]

\* SocketIterator::next: self.product_it.next().map(|(port, ip)| SocketAddr::new(*ip, *port))
SocketIterator_next_ips_outer(it, ip_list, port_list) ==
    LET r == Product_next(it, port_list, ip_list)
    IN  [item |-> IF r.item = None THEN None
                  ELSE Some([ip |-> r.item[1].port, port |-> r.item[1].ip]),
         it |-> r.it]

SocketIterator_next_twice(it, ip_list, port_list) ==
    Product_next(Product_next(it, ip_list, port_list).it, ip_list, port_list)

SocketIterator_next(it, ip_list, port_list) ==
    Product_next(it, ip_list, port_list)

\* ------------------------------------------------------------------ scanner
\* Scanner::new: tries is NonZeroU8::new(max(tries, 1))
Scanner_new_tries_unchecked(t) == t

Scanner_new_tries_min(t) == IF t < 1 THEN t ELSE 1

Scanner_new_tries(t) == IF t > 1 THEN t ELSE 1

\* ----------------------------------------------------------------- udp payload
\* Ord of Vec<u16>, the order of the keys of the BTreeMap: a < b, lexicographically
vec_lt(a, b) ==
    \E i \in 1..(Len(a) + 1) :
        /\ \A j \in 1..(i - 1) : j <= Len(b) /\ a[j] = b[j]
        /\ \/ i = Len(a) + 1 /\ i <= Len(b)
           \/ i <= Len(a) /\ i <= Len(b) /\ a[i] < b[i]

\* the iteration of a BTreeMap: its keys in ascending order
RECURSIVE into_iter(_)
into_iter(keys) ==
    IF keys = {} THEN <<>>
    ELSE LET k == CHOOSE k \in keys : \A j \in keys : j = k \/ vec_lt(k, j)
         IN  <<k>> \o into_iter(keys \ {k})

\* the loop of scan_udp_socket over the table from its i-th entry on: every key that
\* contains the port overwrites the payload
RECURSIVE payload_loop_keeps_first(_, _, _, _, _)
payload_loop_keeps_first(map, entries, i, port, current) ==
    IF i > Len(entries) THEN current
    ELSE payload_loop_keeps_first(map, entries, i + 1, port,
                      IF vec_contains(entries[i], port) /\ current = <<>>
                      THEN map[entries[i]] ELSE current)

RECURSIVE payload_loop(_, _, _, _, _)
payload_loop(map, entries, i, port, current) ==
    IF i > Len(entries) THEN current
    ELSE payload_loop(map, entries, i + 1, port,
                      IF vec_contains(entries[i], port) THEN map[entries[i]] ELSE current)

\* scan_udp_socket, lines 181-187: the payload for a port
payload_for(map, port) == payload_loop(map, into_iter(DOMAIN map), 1, port, <<>>)

VARIABLES
    pc,              \* where main / Scanner::run stands
    exit_code,       \* the exit status of the process, None while it runs
    ips,             \* Scanner.ips
    batch_size,      \* Scanner.batch_size
    tries,           \* Scanner.tries
    udp,             \* Scanner.udp
    port_strategy,   \* Scanner.port_strategy
    exclude_ports,   \* Scanner.exclude_ports
    port_order,      \* run: what self.port_strategy.order() returned
    ports,           \* run: the filtered port order
    socket_iterator, \* run: socket_iterator
    fill_i,          \* run: the iterations of the initial for loop done so far
    ftrs,            \* run: the FuturesUnordered pool, a set of probe futures
    open_sockets,    \* run: open_sockets
    errors,          \* run: errors
    streams,         \* the TcpStreams that are alive, by the id of the probe owning them
    log,             \* history: one entry per probe ever pushed to ftrs
    opts,            \* main: the options the scanner is built from
    range_iterator,  \* a RangeIterator
    emitted,         \* history: what the calls of next() on an iterator returned, in order
    warned,          \* history: the inputs parse_addresses gave a warning for, in order
    ulimit,          \* the soft limit of open files, as adjust_ulimit_size returns it
    config,          \* the Config read from the configuration file
    cli,             \* history: the Opts as the command line gave them, and the fields it named
    udp_map,         \* scan_udp_socket: the table of payloads, port lists to bytes
    udp_port,        \* scan_udp_socket: socket.port()
    payload          \* scan_udp_socket: payload, None before the lookup

vars == <<pc, exit_code, ips, batch_size, tries, udp, port_strategy, exclude_ports,
          port_order, ports, socket_iterator, fill_i, ftrs, open_sockets, errors, streams,
          log, opts, range_iterator, emitted, warned, ulimit, config, cli,
                   udp_map, udp_port, payload>>

\* no payload lookup is under way
PayloadIdle == udp_map = <<>> /\ udp_port = 0 /\ payload = None

\* the fields of the Scanner, and what only the specifications of the parts use
scanner == <<ips, batch_size, tries, udp, port_strategy, exclude_ports,
             opts, range_iterator, emitted, warned, ulimit, config, cli,
                   udp_map, udp_port, payload>>

Init ==
    /\ pc = "main"
    /\ exit_code = None
    /\ ips \in {SubSeq(AllIps, 1, n) : n \in 0..MaxIps}
    /\ batch_size \in 0..MaxBatch
    /\ tries \in {Scanner_new_tries(t) : t \in 0..MaxTries}
    /\ udp \in BOOLEAN
    /\ port_strategy \in Strategies
    /\ exclude_ports \in {<<>>, <<1>>}
    /\ port_order = <<>>
    /\ ports = <<>>
    /\ socket_iterator = SocketIterator_new
    /\ fill_i = 0
    /\ ftrs = {}
    /\ open_sockets = <<>>
    /\ errors = {}
    /\ streams = {}
    /\ log = <<>>
    /\ opts = None
    /\ range_iterator = None
    /\ emitted = <<>>
    /\ warned = <<>> /\ ulimit = usize(0)
    /\ config = None /\ cli = None /\ PayloadIdle


\* main: no IP was resolved, exit(1) before a Scanner is built
main_no_ips ==
    /\ pc = "main"
    /\ is_empty(ips)
    /\ pc' = "exited"
    /\ exit_code' = Some(EXIT_NO_IPS)
    /\ UNCHANGED <<scanner, port_order, ports, socket_iterator, fill_i, ftrs, open_sockets, errors,
                 streams, log>>

\* main builds the Scanner and calls run; run filters the port order and builds the
\* socket iterator, the sink, the pool and the error set
run_start ==
    /\ pc = "main"
    /\ ~is_empty(ips)
    /\ \E draws \in OrderDraws(port_strategy) : port_order' = order(port_strategy, draws)
    /\ ports' = filter_excluded(port_order', exclude_ports)
    /\ socket_iterator' = SocketIterator_new
    /\ open_sockets' = <<>>
    /\ ftrs' = {}
    /\ errors' = {}
    /\ fill_i' = 0
    /\ pc' = "fill"
    /\ UNCHANGED <<exit_code, scanner, streams, log>>

\* ftrs.push(self.scan_socket(socket, ..)): a new future, at its first attempt
pushed(pool, socket, history) ==
    pool \cup {[id |-> Len(history) + 1, socket |-> socket, nr_try |-> 1]}

logged(history, socket) ==
    Append(history, [socket |-> socket, n |-> 0, last |-> "none", result |-> "pending",
                     shutdown |-> "none"])

\* `for _ in 0..self.batch_size`: whether iteration i (from 0) runs
fill_continues_inclusive(i, n) == i <= n

fill_continues_from_one(i, n) == i + 1 < n

fill_continues(i, n) == i < n

\* one iteration of `for _ in 0..self.batch_size`: spawn, or break on None
run_fill ==
    /\ pc = "fill"
    /\ fill_continues(fill_i, batch_size)
    /\ LET r == SocketIterator_next(socket_iterator, ips, ports)
       IN  /\ socket_iterator' = r.it
           /\ IF r.item # None
              THEN /\ ftrs' = pushed(ftrs, r.item[1], log)
                   /\ log' = logged(log, r.item[1])
                   /\ fill_i' = fill_i + 1
                   /\ pc' = "fill"
              ELSE /\ pc' = "poll"
                   /\ UNCHANGED <<ftrs, log, fill_i>>
    /\ UNCHANGED <<exit_code, scanner, port_order, ports, open_sockets, errors, streams>>

\* the for loop ends after batch_size iterations
run_fill_end ==
    /\ pc = "fill"
    /\ ~fill_continues(fill_i, batch_size)
    /\ pc' = "poll"
    /\ UNCHANGED <<exit_code, scanner, port_order, ports, socket_iterator, fill_i, ftrs,
                   open_sockets, errors, streams, log>>

\* HashSet::insert under the cap of run
errors_insert_always(set, error_string, ip_list) == set \cup {error_string}

errors_insert(set, error_string, ip_list) ==
    IF Cardinality(set) < Len(ip_list) * ERRORS_PER_IP THEN set \cup {error_string} ELSE set

\* Ok(socket) => open_sockets.push(socket)
open_sockets_push_new(sink, result) ==
    IF result.ok /\ ~vec_contains(sink, result.socket) THEN Append(sink, result.socket) ELSE sink

open_sockets_push(sink, result) ==
    IF result.ok THEN Append(sink, result.socket) ELSE sink

\* The body of `while let Some(result) = ftrs.next().await`: future p has completed
\* with result; spawn a replacement if the iterator has one, then record the result.
run_completion(p, result, outcome) ==
    LET r == SocketIterator_next(socket_iterator, ips, ports)
        rest == ftrs \ {p}
        done == [log EXCEPT ![p.id] = [@ EXCEPT !.n = @ + 1, !.last = outcome,
                                                  !.result = IF result.ok THEN "Open" ELSE "Error",
                                                  !.shutdown = result.shutdown]]
    IN  /\ socket_iterator' = r.it
        /\ IF r.item # None
           THEN /\ ftrs' = pushed(rest, r.item[1], log)
                /\ log' = logged(done, r.item[1])
           ELSE /\ ftrs' = rest
                /\ log' = done
        /\ open_sockets' = open_sockets_push(open_sockets, result)
        /\ errors' = IF result.ok THEN errors ELSE errors_insert(errors, result.msg, ips)
        /\ pc' = "poll"
        /\ UNCHANGED <<exit_code, scanner, port_order, ports, fill_i>>

\* a panic inside a probe unwinds (or aborts) through ftrs.next(), run and block_on:
\* the exit status is that of a panic of the main thread, whichever way it is built
panic_exit_codes_as_no_ips == {EXIT_NO_IPS}

panic_exit_codes == {EXIT_PANIC_UNWIND, EXIT_PANIC_ABORT}

probe_panics(p, outcome, where) ==
    /\ pc' = where
    /\ exit_code' \in {Some(c) : c \in panic_exit_codes}
    /\ log' = [log EXCEPT ![p.id] = [@ EXCEPT !.n = @ + 1, !.last = outcome]]
    /\ UNCHANGED <<scanner, port_order, ports, socket_iterator, fill_i, ftrs, open_sockets,
                   errors, streams>>

\* the attempt failed and attempts remain: the for loop of the probe goes on
probe_retries_same_try(p, outcome) ==
    /\ ftrs' = ftrs
    /\ log' = [log EXCEPT ![p.id] = [@ EXCEPT !.n = @ + 1, !.last = outcome]]
    /\ UNCHANGED <<pc, exit_code, scanner, port_order, ports, socket_iterator, fill_i,
                   open_sockets, errors, streams>>

probe_retries(p, outcome) ==
    /\ ftrs' = (ftrs \ {p}) \cup {[p EXCEPT !.nr_try = @ + 1]}
    /\ log' = [log EXCEPT ![p.id] = [@ EXCEPT !.n = @ + 1, !.last = outcome]]
    /\ UNCHANGED <<pc, exit_code, scanner, port_order, ports, socket_iterator, fill_i,
                   open_sockets, errors, streams>>

\* the assert! of scan_socket holds for this error text
assert_case_sensitive(error_string) ==
    ~contains(error_string, TOO_MANY_OPEN_FILES)

assert_not_too_many_open_files(error_string) ==
    ~contains(to_lowercase(error_string), TOO_MANY_OPEN_FILES)

\* TcpStream::shutdown(Shutdown::Both) returns Ok(()) or an io::Error
ShutdownOutcomes == {"ok", "err"}

\* tcp_stream.shutdown(Shutdown::Both): what the call did, for the history
shutdown_skipped(sh) == "none"

shutdown_both(sh) == sh

\* connect returned Ok(tcp_stream): probe id owns a stream
stream_connected(held, id) == held \cup {id}

\* tcp_stream goes out of scope when scan_socket returns: the stream is closed
stream_dropped(held, id) == held \ {id}

\* scan_socket, TCP: the connect attempt nr_try of probe p ends with outcome o
scan_socket(p, o) ==
    IF p.nr_try > tries
    THEN \* `for nr_try in 1..=tries` is empty: unreachable!()
         /\ pc' = "unreachable"
         /\ exit_code' \in {Some(c) : c \in panic_exit_codes}
         /\ UNCHANGED <<scanner, port_order, ports, socket_iterator, fill_i, ftrs, open_sockets, errors,
                 streams, log>>
    ELSE IF o = "ok"
    THEN \* Ok(tcp_stream): shutdown(Shutdown::Both), which can fail, then return Ok(socket);
         \* tcp_stream goes out of scope
         \E sh \in ShutdownOutcomes :
            /\ streams' = stream_dropped(stream_connected(streams, p.id), p.id)
            /\ run_completion(p, [ok |-> TRUE, socket |-> p.socket,
                                  shutdown |-> shutdown_both(sh)], o)
    ELSE LET error_string == error_to_string(o)
         IN  IF ~assert_not_too_many_open_files(error_string)
             THEN probe_panics(p, o, "panicked")
             ELSE IF p.nr_try = tries
             THEN /\ run_completion(p, [ok |-> FALSE, shutdown |-> "none",
                                        msg |-> error_string \o <<" ">> \o to_string_ip(p.socket.ip)], o)
                  /\ UNCHANGED streams
             ELSE probe_retries(p, o)

\* scan_udp_socket and udp_scan: attempt nr_try of probe p ends with outcome o
scan_udp_socket_timeout_ends(p, o) ==
    IF o = "reply"
    THEN run_completion(p, [ok |-> TRUE, socket |-> p.socket, shutdown |-> "none"], o)
    ELSE IF o = "recv_timeout"
    THEN run_completion(p, [ok |-> FALSE, shutdown |-> "none",
                            msg |-> UDP_TIMED_OUT_PREFIX \o to_string_socket(p.socket)], o)
    ELSE run_completion(p, [ok |-> FALSE, shutdown |-> "none", msg |-> error_to_string(o)], o)

scan_udp_socket_errors_retried(p, o) ==
    IF o = "reply"
    THEN run_completion(p, [ok |-> TRUE, socket |-> p.socket, shutdown |-> "none"], o)
    ELSE IF p.nr_try = tries
    THEN run_completion(p, [ok |-> FALSE, shutdown |-> "none",
                            msg |-> UDP_TIMED_OUT_PREFIX \o to_string_socket(p.socket)], o)
    ELSE probe_retries(p, o)

scan_udp_socket(p, o) ==
    IF p.nr_try > tries
    THEN run_completion(p, [ok |-> FALSE, shutdown |-> "none",
                            msg |-> UDP_TIMED_OUT_PREFIX \o to_string_socket(p.socket)], o)
    ELSE IF o = "reply"
    THEN run_completion(p, [ok |-> TRUE, socket |-> p.socket, shutdown |-> "none"], o)
    ELSE IF o = "recv_timeout"
    THEN IF p.nr_try = tries
         THEN run_completion(p, [ok |-> FALSE, shutdown |-> "none",
                                 msg |-> UDP_TIMED_OUT_PREFIX \o to_string_socket(p.socket)], o)
         ELSE probe_retries(p, o)
    ELSE run_completion(p, [ok |-> FALSE, shutdown |-> "none", msg |-> error_to_string(o)], o)

\* ftrs.next().await polls a TCP probe whose connect attempt has resolved
poll_tcp ==
    /\ pc = "poll"
    /\ ~udp
    /\ \E p \in ftrs : \E o \in ConnectOutcomes : scan_socket(p, o)

\* ftrs.next().await polls a UDP probe whose udp_scan has resolved
poll_udp ==
    /\ pc = "poll"
    /\ udp
    /\ \E p \in ftrs : \E o \in UdpOutcomes : scan_udp_socket(p, o)
    /\ UNCHANGED streams

\* ftrs.next() yields None: the while loop ends and run returns open_sockets
run_may_return_any(pool) == TRUE

run_may_return(pool) == pool = {}

run_return ==
    /\ pc = "poll"
    /\ run_may_return(ftrs)
    /\ pc' = "returned"
    /\ UNCHANGED <<exit_code, scanner, port_order, ports, socket_iterator, fill_i, ftrs,
                   open_sockets, errors, streams, log>>

\* main after block_on(scanner.run()): reports and returns
main_exit ==
    /\ pc = "returned"
    /\ pc' = "exited"
    /\ exit_code' = Some(EXIT_OK)
    /\ UNCHANGED <<scanner, port_order, ports, socket_iterator, fill_i, ftrs, open_sockets, errors,
                 streams, log>>

Next ==
    \/ main_no_ips
    \/ run_start
    \/ run_fill
    \/ run_fill_end
    \/ poll_tcp
    \/ poll_udp
    \/ run_return
    \/ main_exit

Spec == Init /\ [][Next]_vars

\* The executor keeps polling and every attempt resolves (each has its timeout), so a
\* step that can be taken is eventually taken.
LiveSpec == Spec /\ WF_vars(Next)

\* ------------------------------------------------- the parts on their own
\* What run keeps, before run is called
RunIdle ==
    /\ exit_code = None
    /\ port_order = <<>>
    /\ ports = <<>>
    /\ socket_iterator = SocketIterator_new
    /\ fill_i = 0
    /\ ftrs = {}
    /\ open_sockets = <<>>
    /\ errors = {}
    /\ streams = {}
    /\ log = <<>>

run_state == <<exit_code, ports, socket_iterator, fill_i, ftrs, open_sockets, errors, streams, log>>

\* Scanner::new alone, for every value of its tries argument
NewInit ==
    /\ pc = "new"
    /\ opts \in {[tries |-> t] : t \in 0..U8_MAX}
    /\ ips = <<>> /\ batch_size = 0 /\ tries = 1 /\ udp = FALSE
    /\ port_strategy = Manual(<<>>) /\ exclude_ports = <<>>
    /\ range_iterator = None /\ emitted = <<>> /\ warned = <<>> /\ ulimit = usize(0)
    /\ config = None /\ cli = None /\ PayloadIdle
    /\ RunIdle

Scanner_new ==
    /\ pc = "new"
    /\ tries' = Scanner_new_tries(opts.tries)
    /\ pc' = "built"
    /\ UNCHANGED <<ips, batch_size, udp, port_strategy, exclude_ports, port_order, opts,
                   range_iterator, emitted, warned, ulimit, config, cli,
                   udp_map, udp_port, payload, run_state>>

NewNext == Scanner_new

NewSpec == NewInit /\ [][NewNext]_vars

\* SocketIterator alone: new, then next() until ExtraCalls calls after the last pair
ExtraCalls == 2
IterIps == {IpAt(i) : i \in 1..MaxIterLen}

IterInit ==
    /\ pc = "iter"
    /\ ips \in SeqsUpTo(IterIps, MaxIterLen)
    /\ ports \in SeqsUpTo(PortUniverse, MaxIterLen)
    /\ socket_iterator = SocketIterator_new
    /\ emitted = <<>>
    /\ batch_size = 0 /\ tries = 1 /\ udp = FALSE
    /\ port_strategy = Manual(<<>>) /\ exclude_ports = <<>>
    /\ exit_code = None /\ port_order = <<>> /\ fill_i = 0 /\ ftrs = {}
    /\ open_sockets = <<>> /\ errors = {} /\ streams = {} /\ log = <<>>
    /\ opts = None /\ range_iterator = None /\ warned = <<>> /\ ulimit = usize(0)
    /\ config = None /\ cli = None /\ PayloadIdle

SocketIterator_call ==
    /\ pc = "iter"
    /\ Len(emitted) < Len(ips) * Len(ports) + ExtraCalls
    /\ LET r == SocketIterator_next(socket_iterator, ips, ports)
       IN  /\ socket_iterator' = r.it
           /\ emitted' = Append(emitted, r.item)
    /\ UNCHANGED <<pc, exit_code, ips, batch_size, tries, udp, port_strategy, exclude_ports,
                   port_order, ports, fill_i, ftrs, open_sockets, errors, streams, log, opts,
                   range_iterator, warned, ulimit, config, cli,
                   udp_map, udp_port, payload>>

IterNext == SocketIterator_call

IterSpec == IterInit /\ [][IterNext]_vars

\* the ranges start..=end with start <= end
Ranges == {[start |-> r[1], end |-> r[2]] : r \in {x \in (1..MaxRangeEnd) \X (1..MaxRangeEnd) : x[1] <= x[2]}}

\* RangeIterator alone: new with its random draws, then next() until ExtraCalls calls
\* after the last port
RangeInit ==
    /\ pc = "range"
    /\ opts \in {[range |-> Some(r)] : r \in Ranges}
    /\ range_iterator = None
    /\ emitted = <<>>
    /\ warned = <<>> /\ ulimit = usize(0)
    /\ config = None /\ cli = None /\ PayloadIdle
    /\ ips = <<>> /\ batch_size = 0 /\ tries = 1 /\ udp = FALSE
    /\ port_strategy = Manual(<<>>) /\ exclude_ports = <<>>
    /\ RunIdle

range_unchanged ==
    UNCHANGED <<pc, ips, batch_size, tries, udp, port_strategy, exclude_ports, port_order,
                opts, warned, ulimit, config, cli,
                   udp_map, udp_port, payload, run_state>>

RangeIterator_create ==
    /\ pc = "range"
    /\ range_iterator = None
    /\ \E draws \in RangeDraws(opts.range[1].start, opts.range[1].end) :
          range_iterator' = Some(RangeIterator_new(opts.range[1].start, opts.range[1].end,
                                                   draws.step, draws.first_pick))
    /\ UNCHANGED emitted
    /\ range_unchanged

RangeIterator_call ==
    /\ pc = "range"
    /\ range_iterator # None
    /\ Len(emitted) < range_iterator[1].normalized_end + ExtraCalls
    /\ LET r == RangeIterator_next(range_iterator[1])
       IN  /\ range_iterator' = Some(r.it)
           /\ emitted' = Append(emitted, r.item)
    /\ range_unchanged

RangeNext ==
    \/ RangeIterator_create
    \/ RangeIterator_call

RangeSpec == RangeInit /\ [][RangeNext]_vars

\* PortStrategy::pick and then order(), as main and run call them. The options hold a
\* range or a port list (Opts::read gives a range when both are missing); a range for
\* Random order has start <= end.
AllRanges == {[start |-> s, end |-> e] : s \in 1..MaxRangeEnd, e \in 1..MaxRangeEnd}

PickOpts ==
    {[range |-> Some(r), ports |-> None, scan_order |-> "Serial"] : r \in AllRanges}
    \cup {[range |-> Some(r), ports |-> None, scan_order |-> "Random"] : r \in Ranges}
    \cup {[range |-> r, ports |-> Some(l), scan_order |-> o] :
              r \in {None, Some([start |-> 1, end |-> MaxRangeEnd])},
              l \in SeqsUpTo(1..MaxList, MaxList),
              o \in {"Serial", "Random"}}

PickInit ==
    /\ pc = "pick"
    /\ opts \in PickOpts
    /\ port_strategy = Manual(<<>>)
    /\ ips = <<>> /\ batch_size = 0 /\ tries = 1 /\ udp = FALSE /\ exclude_ports = <<>>
    /\ range_iterator = None /\ emitted = <<>> /\ warned = <<>> /\ ulimit = usize(0)
    /\ config = None /\ cli = None /\ PayloadIdle
    /\ RunIdle

\* the draws of pick: those of shuffle, made for a port list in Random order only
PickDraws(o) ==
    IF o.ports # None /\ o.scan_order = "Random" THEN ShuffleDraws(Len(o.ports[1])) ELSE {<<>>}

PortStrategy_pick ==
    /\ pc = "pick"
    /\ \E choice \in PickDraws(opts) :
          port_strategy' = pick(opts.range, opts.ports, opts.scan_order, choice)
    /\ pc' = "picked"
    /\ UNCHANGED <<ips, batch_size, tries, udp, exclude_ports, port_order, opts,
                   range_iterator, emitted, warned, ulimit, config, cli,
                   udp_map, udp_port, payload, run_state>>

PortStrategy_order ==
    /\ pc = "picked"
    /\ \E draws \in OrderDraws(port_strategy) : port_order' = order(port_strategy, draws)
    /\ pc' = "ordered"
    /\ UNCHANGED <<ips, batch_size, tries, udp, port_strategy, exclude_ports, opts,
                   range_iterator, emitted, warned, ulimit, config, cli,
                   udp_map, udp_port, payload, run_state>>

PickNext ==
    \/ PortStrategy_pick
    \/ PortStrategy_order

PickSpec == PickInit /\ [][PickNext]_vars

\* parse_addresses, as main calls it. The inputs name four hosts 10.0.0.0 to 10.0.0.3:
\* literals, blocks (10.0.0.1/31 has host bits set), a name the OS resolves to two
\* addresses, a name only the backup resolver knows, a name with a port, a string that
\* is nothing, a file of three lines and a file that cannot be opened.
MaxAddresses == 2
MaxExcludes == 2

AddressStrings ==
    {IpString(0), IpString(1), CidrString(1, 31), CidrString(0, 30),
     HostString(<<IpAt(2), IpAt(3)>>, <<>>), HostString(<<>>, <<IpAt(3), IpAt(1)>>),
     HostPortString(<<IpAt(2), IpAt(0)>>), BadString,
     FileString(<<IpString(1), BadString, CidrString(2, 31)>>, TRUE),
     FileString(<<IpString(0)>>, FALSE)}

ExcludeStrings ==
    {IpString(1), CidrString(2, 31), CidrString(1, 31),
     HostString(<<>>, <<IpAt(3), IpAt(0)>>)}

ParseInit ==
    /\ pc = "parse"
    /\ opts \in {[addresses |-> a, exclude_addresses |-> x] :
                    a \in SeqsUpTo(AddressStrings, MaxAddresses),
                    x \in {None} \cup {Some(l) : l \in SeqsUpTo(ExcludeStrings, MaxExcludes)}}
    /\ port_strategy = Manual(<<>>)
    /\ ips = <<>> /\ batch_size = 0 /\ tries = 1 /\ udp = FALSE /\ exclude_ports = <<>>
    /\ range_iterator = None /\ emitted = <<>> /\ warned = <<>> /\ ulimit = usize(0)
    /\ config = None /\ cli = None /\ PayloadIdle
    /\ RunIdle

main_parse_addresses ==
    /\ pc = "parse"
    /\ ips' = parse_addresses(opts).ips
    /\ warned' = parse_addresses(opts).warned
    /\ pc' = "parsed"
    /\ UNCHANGED <<batch_size, tries, udp, port_strategy, exclude_ports, port_order, opts,
                   range_iterator, emitted, ulimit, config, cli,
                   udp_map, udp_port, payload, run_state>>

ParseNext == main_parse_addresses

ParseSpec == ParseInit /\ [][ParseNext]_vars

\* run() close to the cap of its error set: a UDP scan of one IP over the ports 1 to
\* ERRORS_PER_IP + CapMargin with a pool of one and one try, taken up where the first
\* ERRORS_PER_IP - CapMargin probes have timed out, each with its own message, and the
\* next probe is in flight.
CapMargin == 2
CapIps == <<IpAt(1)>>
CapPorts == SerialRange_generate(1, Len(CapIps) * ERRORS_PER_IP + CapMargin)
CapDone == Len(CapIps) * ERRORS_PER_IP - CapMargin
CapSocket(k) == [ip |-> CapIps[1], port |-> CapPorts[k]]

CapInit ==
    /\ pc = "poll"
    /\ exit_code = None
    /\ ips = CapIps /\ batch_size = 1 /\ tries = 1 /\ udp = TRUE
    /\ port_strategy = Serial(1, Len(CapPorts)) /\ exclude_ports = <<>>
    /\ port_order = CapPorts
    /\ ports = CapPorts
    /\ socket_iterator = [a |-> CapDone + 1, a_cur |-> CapDone + 1, b |-> 1]
    /\ fill_i = 1
    /\ ftrs = {[id |-> CapDone + 1, socket |-> CapSocket(CapDone + 1), nr_try |-> 1]}
    /\ open_sockets = <<>>
    /\ errors = {UDP_TIMED_OUT_PREFIX \o to_string_socket(CapSocket(k)) : k \in 1..CapDone}
    /\ streams = {}
    /\ log = [k \in 1..(CapDone + 1) |->
                 IF k <= CapDone
                 THEN [socket |-> CapSocket(k), n |-> 1, last |-> "recv_timeout",
                       result |-> "Error", shutdown |-> "none"]
                 ELSE [socket |-> CapSocket(k), n |-> 0, last |-> "none",
                       result |-> "pending", shutdown |-> "none"]]
    /\ opts = None /\ range_iterator = None /\ emitted = <<>> /\ warned = <<>> /\ ulimit = usize(0)
    /\ config = None /\ cli = None /\ PayloadIdle

CapNext ==
    \/ poll_udp
    \/ run_return
    \/ main_exit

CapSpec == CapInit /\ [][CapNext]_vars

\* infer_batch_size, as main calls it on unix. The requested batch size and the soft
\* limit are taken within BatchMargin of 0, of the reserve of 100, of both thresholds
\* and of usize::MAX (the limit adjust_ulimit_size returns when the soft limit does not
\* convert), and 50000; the limit was asked for with --ulimit, or not.
BatchMargin == 2

Near(n) == {usize(k) : k \in (IF n < BatchMargin THEN 0 ELSE n - BatchMargin)..(n + BatchMargin)}

Sizes ==
    Near(0) \cup Near(RESERVED_DESCRIPTORS) \cup Near(AVERAGE_BATCH_SIZE)
    \cup Near(DEFAULT_FILE_DESCRIPTORS_LIMIT) \cup {usize(50000)}
    \cup {usize_sub(USIZE_MAX, usize(k)).value : k \in 0..BatchMargin}

BatchInit ==
    /\ pc = "infer"
    /\ ulimit \in Sizes
    /\ opts \in {[batch_size |-> b, ulimit |-> u, greppable |-> g] :
                    b \in Sizes, u \in {None, Some(ulimit)}, g \in BOOLEAN}
    /\ batch_size = usize(0)
    /\ port_strategy = Manual(<<>>)
    /\ ips = <<>> /\ tries = 1 /\ udp = FALSE /\ exclude_ports = <<>>
    /\ range_iterator = None /\ emitted = <<>> /\ warned = <<>>
    /\ config = None /\ cli = None /\ PayloadIdle
    /\ RunIdle

\* detail! prints unless the output is greppable
Printed(o) == IF o.greppable THEN BOOLEAN ELSE {TRUE}

main_infer_batch_size ==
    /\ pc = "infer"
    /\ \E overflow_checks \in BOOLEAN, printed \in Printed(opts) :
          LET r == infer_batch_size(opts, ulimit, overflow_checks, printed)
          IN  IF r.panic
              THEN /\ pc' = "panicked"
                   /\ exit_code' \in {Some(c) : c \in panic_exit_codes}
                   /\ UNCHANGED batch_size
              ELSE /\ pc' = "inferred"
                   /\ batch_size' = r.value
                   /\ UNCHANGED exit_code
    /\ UNCHANGED <<ips, tries, udp, port_strategy, exclude_ports, port_order, ports,
                   socket_iterator, fill_i, ftrs, open_sockets, errors, streams, log, opts,
                   range_iterator, emitted, warned, ulimit, config, cli,
                   udp_map, udp_port, payload>>

BatchNext == main_infer_batch_size

BatchSpec == BatchInit /\ [][BatchNext]_vars

\* Opts::merge, as main calls it after Opts::read and Config::read. Of the options,
\* batch_size and tries stand for the fields of merge_required, ulimit for those of
\* merge_optional, beside ports, top and no_config. A field the command line does not
\* name holds its default; one it names holds any value, the default included.
MergeFields == {"batch_size", "tries", "ulimit", "ports"}
Given(given, field, values, default) == IF field \in given THEN values ELSE {default}

MergeInit ==
    /\ pc = "merge"
    /\ cli \in {[opts |-> [batch_size |-> b, tries |-> t, ulimit |-> u, ports |-> p,
                            top |-> top, no_config |-> n],
                  given |-> g] :
                    g \in SUBSET MergeFields,
                    b \in {usize(DEFAULT_BATCH_SIZE), usize(10)}, t \in {DEFAULT_TRIES, 3},
                    u \in {None, Some(usize(5000))}, p \in {None, Some(<<80>>)},
                    top \in BOOLEAN, n \in BOOLEAN}
    /\ cli.opts.batch_size \in Given(cli.given, "batch_size", {usize(DEFAULT_BATCH_SIZE), usize(10)},
                                      usize(DEFAULT_BATCH_SIZE))
    /\ cli.opts.tries \in Given(cli.given, "tries", {DEFAULT_TRIES, 3}, DEFAULT_TRIES)
    /\ cli.opts.ulimit \in Given(cli.given, "ulimit", {Some(usize(5000))}, None)
    /\ cli.opts.ports \in Given(cli.given, "ports", {Some(<<80>>)}, None)
    /\ opts = cli.opts
    /\ config \in [batch_size : {None, Some(usize(25000))}, tries : {None, Some(2)},
                    ulimit : {None, Some(usize(7000))}, ports : {None, Some(<<443>>)}]
    /\ ulimit = usize(0) /\ batch_size = 0
    /\ port_strategy = Manual(<<>>)
    /\ ips = <<>> /\ tries = 1 /\ udp = FALSE /\ exclude_ports = <<>>
    /\ range_iterator = None /\ emitted = <<>> /\ warned = <<>>
    /\ PayloadIdle
    /\ RunIdle

main_merge ==
    /\ pc = "merge"
    /\ opts' = merge(opts, config)
    /\ pc' = "merged"
    /\ UNCHANGED <<ips, batch_size, tries, udp, port_strategy, exclude_ports, port_order,
                   range_iterator, emitted, warned, ulimit, config, cli,
                   udp_map, udp_port, payload, run_state>>

MergeNext == main_merge

MergeSpec == MergeInit /\ [][MergeNext]_vars

\* The payload lookup of scan_udp_socket alone, for every table of at most MaxKeys port
\* lists, each of at most MaxKeyLen different ports, and every port, one of no list
\* included.
MaxKeyLen == 2
MaxKeys == 3
PayloadKeys == {k \in SeqsUpTo(1..MaxPort, MaxKeyLen) :
                  \A i, j \in 1..Len(k) : k[i] = k[j] => i = j}
PayloadBytes == {<<1>>, <<2>>}

PayloadInit ==
    /\ pc = "payload"
    /\ udp_map \in UNION {[keys -> PayloadBytes] :
                            keys \in {K \in SUBSET PayloadKeys : Cardinality(K) <= MaxKeys}}
    /\ udp_port \in 1..(MaxPort + 1)
    /\ payload = None
    /\ opts = [udp |-> TRUE]
    /\ config = None /\ cli = None
    /\ ulimit = usize(0) /\ batch_size = 0
    /\ port_strategy = Manual(<<>>)
    /\ ips = <<>> /\ tries = 1 /\ udp = TRUE /\ exclude_ports = <<>>
    /\ range_iterator = None /\ emitted = <<>> /\ warned = <<>>
    /\ RunIdle

scan_udp_socket_payload ==
    /\ pc = "payload"
    /\ payload' = Some(payload_for(udp_map, udp_port))
    /\ pc' = "payload_set"
    /\ UNCHANGED <<ips, batch_size, tries, udp, port_strategy, exclude_ports, port_order,
                   opts, range_iterator, emitted, warned, ulimit, config, cli,
                   udp_map, udp_port, run_state>>

PayloadNext == scan_udp_socket_payload

PayloadSpec == PayloadInit /\ [][PayloadNext]_vars

\* PortStrategy::order for the ranges with start > end, which parse_range accepts:
\* Serial, and Random with its RangeIterator in u32, in a build with overflow checks
\* and in one without. The ports collected are followed up to MaxCollected.
MaxCollected == 3
ReversedRanges == {r \in (1..MaxRangeEnd) \X (1..MaxRangeEnd) : r[1] > r[2]}

ReversedInit ==
    /\ pc = "order"
    /\ port_strategy \in {Serial(r[1], r[2]) : r \in ReversedRanges}
                          \cup {Random(r[1], r[2]) : r \in ReversedRanges}
    /\ opts \in [overflow_checks : BOOLEAN]
    /\ range_iterator = None
    /\ emitted = <<>>
    /\ warned = <<>> /\ ulimit = usize(0)
    /\ config = None /\ cli = None /\ PayloadIdle
    /\ ips = <<>> /\ batch_size = 0 /\ tries = 1 /\ udp = FALSE
    /\ exclude_ports = <<>>
    /\ RunIdle

reversed_unchanged ==
    UNCHANGED <<ips, batch_size, tries, udp, port_strategy, exclude_ports, opts, warned,
                ulimit, config, cli, udp_map, udp_port, payload, exit_code, ports,
                socket_iterator, fill_i, ftrs, open_sockets, errors, streams, log>>

\* order() of a Serial strategy
SerialRange_order ==
    /\ pc = "order"
    /\ port_strategy.kind = "Serial"
    /\ port_order' = order(port_strategy, NoDraws)
    /\ pc' = "ordered"
    /\ UNCHANGED <<range_iterator, emitted>>
    /\ reversed_unchanged

\* RandomRange::generate: RangeIterator::new
RandomRange_new ==
    /\ pc = "order"
    /\ port_strategy.kind = "Random"
    /\ range_iterator = None
    /\ LET start == port_strategy.start
           normalized_end == normalized_end_of(start, port_strategy.end, opts.overflow_checks)
           range == u32_range(normalized_end.value)
       IN  IF normalized_end.panic # ""
           THEN pc' = normalized_end.panic /\ UNCHANGED range_iterator
           ELSE IF ~u32_lt(range.lower, range.upper)
           THEN pc' = PANIC_EMPTY_RANGE /\ UNCHANGED range_iterator
           ELSE /\ \E step \in u32_pick_random_coprime(normalized_end.value),
                     first_pick \in u32_first_picks(start, normalized_end.value) :
                     range_iterator' = Some([active |-> TRUE,
                                             normalized_end |-> normalized_end.value,
                                             step |-> step,
                                             normalized_first_pick |-> first_pick,
                                             normalized_pick |-> first_pick,
                                             actual_start |-> u32(start)])
                /\ UNCHANGED pc
    /\ UNCHANGED <<port_order, emitted>>
    /\ reversed_unchanged

\* RandomRange::generate: collect() calls next() until it returns None
RandomRange_collect ==
    /\ pc = "order"
    /\ range_iterator # None
    /\ Len(emitted) < MaxCollected
    /\ LET r == u32_next(range_iterator[1], opts.overflow_checks)
       IN  IF r.panic # ""
           THEN pc' = r.panic /\ UNCHANGED <<range_iterator, emitted, port_order>>
           ELSE IF r.item = None
           THEN pc' = "ordered" /\ port_order' = emitted /\ UNCHANGED <<range_iterator, emitted>>
           ELSE /\ emitted' = Append(emitted, r.item[1])
                /\ range_iterator' = Some(r.it)
                /\ UNCHANGED <<pc, port_order>>
    /\ reversed_unchanged

ReversedNext ==
    \/ SerialRange_order
    \/ RandomRange_new
    \/ RandomRange_collect

ReversedSpec == ReversedInit /\ [][ReversedNext]_vars

\* ----------------------------------------------------------------- claims
Min(a, b) == IF a < b THEN a ELSE b
Targets == Len(ips) * Len(ports)
HasNext == SocketIterator_next(socket_iterator, ips, ports).item # None
Count(seq, x) == Cardinality({i \in 1..Len(seq) : seq[i] = x})

\* C1: in every state of run (initial fill, refill, drain, any completion order) the
\* number of in-flight probes is at most batch_size.
C1_InFlightAtMostBatchSize == Cardinality(ftrs) <= batch_size

\* C1 witness: steady state, the pool is full after a completion was replaced.
C1_Witness ==
    /\ pc = "poll" /\ batch_size = 2 /\ Cardinality(ftrs) = 2 /\ Len(log) = 3
    /\ log[1].result # "pending"

\* C2: with batch_size >= 1 and no abort, when run returns a probe was spawned exactly
\* once for every position of (ports after exclusion) x (ips), in that order: the
\* k-th probe spawned is for (ips[k mod m], ports[k div m]) and there are |ips|*|ports|.
C2_EveryPairProbedOnce ==
    (pc = "returned" /\ batch_size >= 1) =>
        /\ Len(log) = Len(ips) * Len(ports)
        /\ \A k \in 1..Len(log) :
              log[k].socket = [ip |-> ips[((k - 1) % Len(ips)) + 1],
                               port |-> ports[((k - 1) \div Len(ips)) + 1]]

\* C2 witness: run returned after 4 probes through a pool of 1.
C2_Witness == pc = "returned" /\ batch_size = 1 /\ Len(log) = 4

\* C3: while the driver waits for a completion and the iterator has pairs left the pool
\* holds exactly batch_size probes; the initial fill spawns min(batch_size, |ips|*|ports|)
\* probes; a completion spawns at most one replacement.
C3_PoolStaysFull ==
    /\ [](pc = "poll" /\ HasNext => Cardinality(ftrs) = batch_size)
    /\ [][pc = "fill" /\ pc' = "poll" => Len(log') = Min(batch_size, Targets)]_vars
    /\ [][pc = "poll" => Len(log') <= Len(log) + 1]_vars

\* C3 witness: waiting with a full pool of 2, one replacement spawned, pairs left.
C3_Witness ==
    pc = "poll" /\ HasNext /\ batch_size = 2 /\ Cardinality(ftrs) = 2 /\ Len(log) = 3

\* C4: when every spawned probe completes run eventually returns (a probe that panics
\* does not complete), and it returns only with the iterator exhausted and the pool empty.
C4_RunReturnsDrained ==
    /\ (pc = "fill") ~> (pc = "returned" \/ pc = "panicked")
    /\ [](pc = "returned" => ~HasNext /\ ftrs = {})

\* C4, the part that holds: once run has started it returns unless a probe panics.
C4_RunTerminates == (pc = "fill") ~> (pc = "returned" \/ pc = "panicked")

\* C4, the part that holds: with batch_size >= 1 run returns only with the iterator
\* exhausted and the pool empty.
C4_DrainedWhenBatchPositive ==
    (pc = "returned" /\ batch_size >= 1) => ~HasNext /\ ftrs = {}

\* C5: the returned list holds one entry per probe that completed with Open and nothing
\* else: per socket, as many entries as Open completions of that socket.
C5_OpenSocketsAreOpenCompletions ==
    \A ip \in {ips[i] : i \in 1..Len(ips)} : \A port \in PortUniverse :
        LET s == [ip |-> ip, port |-> port]
        IN  Count(open_sockets, s)
              = Cardinality({k \in 1..Len(log) : log[k].socket = s /\ log[k].result = "Open"})

\* C5 witness: run returned with the same socket reported open twice (a repeated port)
\* and another probe ended in Error.
C5_Witness ==
    /\ pc = "returned" /\ Len(open_sockets) = 2 /\ open_sockets[1] = open_sockets[2]
    /\ \E k \in 1..Len(log) : log[k].result = "Error"


\* The IPs of the model as the scanner must print them: 10.0.0.i
ExpectedIpText(ip) == <<"1", "0", ".", "0", ".", "0", ".">> \o <<DIGITS[(ip - IpAt(0)) + 1]>>
Failures == {"refused", "timedout"}

\* C6: in TCP mode a connect attempt failing with a "too many open files" text (in any
\* letter case) aborts the scan at that attempt: the probe makes no further attempt
\* though attempts remain, nothing more is spawned, and run never returns a list.
C6_TcpExhaustionAborts ==
    /\ [](~udp => \A k \in 1..Len(log) : log[k].last = "emfile" =>
              /\ pc = "panicked"
              /\ log[k].result = "pending"
              /\ \E p \in ftrs : p.id = k /\ p.nr_try = log[k].n)
    /\ [][pc = "panicked" => pc' = "panicked" /\ UNCHANGED <<log, ftrs, open_sockets>>]_vars

\* C6 witness: aborted on the first attempt of a probe that had a second attempt left,
\* with pairs still waiting in the iterator.
C6_Witness ==
    /\ pc = "panicked" /\ ~udp /\ tries = 2 /\ HasNext
    /\ \E k \in 1..Len(log) : log[k].last = "emfile" /\ log[k].n = 1

\* C7: descriptor exhaustion met by any probe, UDP as well as TCP, aborts the scan
\* instead of being recorded as an ordinary error.
C7_AnyExhaustionAborts ==
    \A k \in 1..Len(log) : log[k].last = "emfile" => pc = "panicked"

C9_TcpAttemptsSequential ==
    /\ [](~udp => \A k \in 1..Len(log) :
              /\ log[k].n <= tries
              /\ log[k].last = "ok" => log[k].result = "Open"
              /\ log[k].result = "Open" => log[k].last = "ok"
              /\ \A p \in ftrs : (p.id = k /\ pc # "panicked") =>
                    /\ p.nr_try = log[k].n + 1
                    /\ log[k].n > 0 => log[k].last \in Failures)
    /\ [][~udp => \A k \in 1..Len(log) : log'[k].n # log[k].n =>
              /\ log'[k].n = log[k].n + 1
              /\ log[k].result = "pending"
              /\ log[k].last \in Failures \cup {"none"}]_vars

\* C9 witness: a probe whose first attempt failed and whose second attempt connected.
C9_Witness ==
    /\ ~udp
    /\ \E k \in 1..Len(log) : log[k].n = 2 /\ log[k].last = "ok" /\ log[k].result = "Open"

\* C10: every TCP probe yields exactly one result; a probe that ends in Error made
\* exactly tries attempts, all failed, and its error is the text of the last attempt's
\* error, a space and the target IP; unreachable!() is never reached.
C10_TcpProbeOneResult ==
    /\ [](pc # "unreachable")
    /\ [](~udp => \A k \in 1..Len(log) : log[k].result = "Error" =>
              /\ log[k].n = tries
              /\ log[k].last \in Failures
              /\ (error_to_string(log[k].last) \o <<" ">> \o ExpectedIpText(log[k].socket.ip))
                    \in errors)
    /\ [](~udp => \A e \in errors : \E k \in 1..Len(log) :
              /\ log[k].result = "Error"
              /\ e = error_to_string(log[k].last) \o <<" ">> \o ExpectedIpText(log[k].socket.ip))
    /\ [](pc = "returned" => \A k \in 1..Len(log) : log[k].result # "pending")
    /\ [][\A k \in 1..Len(log) : log[k].result # "pending" => log'[k] = log[k]]_vars

\* C10 witness: run returned after a probe failed twice, the last time by a timeout,
\* and reported that error.
C10_Witness ==
    /\ ~udp /\ tries = 2 /\ pc = "returned"
    /\ \E k \in 1..Len(log) :
          log[k].result = "Error" /\ log[k].n = 2 /\ log[k].last = "timedout"

\* C11: Scanner::new stores max(tries, 1): 0 becomes 1 and every value of 1..=255 is
\* kept, so the stored number of attempts is never 0.
C11_TriesAtLeastOne ==
    pc = "built" =>
        /\ opts.tries = 0 => tries = 1
        /\ opts.tries \in 1..U8_MAX => tries = opts.tries
        /\ tries \in 1..U8_MAX

\* C11 witness: a Scanner built from tries = 0, holding 1.
C11_Witness == pc = "built" /\ opts.tries = 0 /\ tries = 1

\* C12: every TCP probe that reports Open called shutdown(Shutdown::Both) on its stream
\* first, an error of that call leaves the result Open, shutdown is called on connected
\* streams only, and no TcpStream is alive once run has returned.
C12_StreamsShutDown ==
    /\ ~udp => \A k \in 1..Len(log) :
          /\ log[k].result = "Open" => log[k].shutdown \in ShutdownOutcomes
          /\ log[k].shutdown \in ShutdownOutcomes => log[k].result = "Open" /\ log[k].last = "ok"
    /\ pc = "returned" => streams = {}

\* C12 witness: run returned after one probe reported Open though its shutdown failed and
\* another reported Open after a clean shutdown.
C12_Witness ==
    /\ pc = "returned" /\ ~udp /\ streams = {}
    /\ \E k \in 1..Len(log) : log[k].result = "Open" /\ log[k].shutdown = "err"
    /\ \E k \in 1..Len(log) : log[k].result = "Open" /\ log[k].shutdown = "ok"

IsDistinct(seq) == \A i, j \in 1..Len(seq) : seq[i] = seq[j] => i = j

RangeN == opts.range[1].end - opts.range[1].start + 1
Abs(x) == IF x < 0 THEN -x ELSE x

\* C15: whatever the step and the first pick, the RangeIterator of a range with
\* start <= end emits end - start + 1 ports, all within the range and no two equal (so
\* each port of the range once), and None on every later call.
C15_RangeEmittedOnce ==
    (pc = "range" /\ range_iterator # None) =>
        /\ \A k \in 1..Len(emitted) :
              IF k <= RangeN
              THEN /\ emitted[k] # None
                   /\ emitted[k][1] \in opts.range[1].start..opts.range[1].end
              ELSE emitted[k] = None
        /\ \A i, j \in 1..Min(Len(emitted), RangeN) : emitted[i] = emitted[j] => i = j
        /\ Len(emitted) >= RangeN =>
              \A port \in opts.range[1].start..opts.range[1].end : Count(emitted, Some(port)) = 1

\* C15 witness: a range of 9 ports emitted in full, then None twice.
C15_Witness ==
    /\ pc = "range" /\ range_iterator # None /\ RangeN = 9 /\ Len(emitted) = 11
    /\ emitted[9] # None /\ emitted[10] = None /\ emitted[11] = None

\* C16 as claimed: no two successive ports of a RangeIterator differ by exactly 1.
C16_NeverAdjacent ==
    (pc = "range" /\ range_iterator # None) =>
        \A k \in 1..(Len(emitted) - 1) :
            (emitted[k] # None /\ emitted[k + 1] # None) =>
                Abs(emitted[k + 1][1] - emitted[k][1]) # 1

\* C16 amended: successive ports differ by step or by step - N, where N = end - start + 1;
\* they are never adjacent when N >= 8 and the step is a drawn candidate of
\* [N/4, N - N/4). A range of fewer than 8 ports can get the step 1 or N - 1, and the
\* fallback step N - 1 of any range gives adjacent ports.
C16_NotAdjacentForDrawnStepOfWideRange ==
    (pc = "range" /\ range_iterator # None) =>
        \A k \in 1..(Len(emitted) - 1) :
            (emitted[k] # None /\ emitted[k + 1] # None) =>
                /\ emitted[k + 1][1] - emitted[k][1]
                      \in {range_iterator[1].step, range_iterator[1].step - RangeN}
                /\ (RangeN >= 8 /\ range_iterator[1].step \in Candidates(RangeN)) =>
                      Abs(emitted[k + 1][1] - emitted[k][1]) # 1

\* C16 witness: a range of 8 ports walked in full with the drawn step 3.
C16_Witness ==
    /\ pc = "range" /\ range_iterator # None /\ RangeN = 8 /\ range_iterator[1].step = 3
    /\ Len(emitted) = 8 /\ emitted[8] # None

Ascending(start, end) == [i \in 1..(end - start + 1) |-> start + i - 1]
IsPermutation(a, b) ==
    /\ Len(a) = Len(b)
    /\ \A i \in 1..Len(a) : Count(a, a[i]) = Count(b, a[i])
RandomRangePicked ==
    pc = "ordered" /\ opts.ports = None /\ opts.scan_order = "Random"

\* C17 as claimed: for a range of at least two ports in Random order, order() is a
\* permutation of start..=end that differs from the ascending sequence.
C17_RandomDiffersFromAscending ==
    (RandomRangePicked /\ opts.range[1].end - opts.range[1].start + 1 >= 2) =>
        /\ IsPermutation(port_order, Ascending(opts.range[1].start, opts.range[1].end))
        /\ port_order # Ascending(opts.range[1].start, opts.range[1].end)

\* C17 amended: for a range in Random order pick gives the Random strategy and order()
\* is a permutation of start..=end; it differs from the ascending sequence for every
\* range of at least 8 ports. A range of 2 to 7 ports can come out ascending (step 1,
\* first pick 0).
C17_RandomDiffersForWideRange ==
    RandomRangePicked =>
        /\ port_strategy = Random(opts.range[1].start, opts.range[1].end)
        /\ IsPermutation(port_order, Ascending(opts.range[1].start, opts.range[1].end))
        /\ opts.range[1].end - opts.range[1].start + 1 >= 8 =>
              port_order # Ascending(opts.range[1].start, opts.range[1].end)

\* C17 witness: the 8 ports 2..9 in Random order, starting at the first port.
C17_Witness ==
    /\ RandomRangePicked /\ opts.range[1] = [start |-> 2, end |-> 9]
    /\ Len(port_order) = 8 /\ port_order[1] = 2

\* C18: for a range with start <= end, no port list and Serial order, pick gives the
\* Serial strategy and order() is start, start + 1, ..., end: end - start + 1 ports.
C18_SerialAscending ==
    (pc = "ordered" /\ opts.ports = None /\ opts.scan_order = "Serial"
        /\ opts.range[1].start <= opts.range[1].end) =>
        /\ port_strategy = Serial(opts.range[1].start, opts.range[1].end)
        /\ Len(port_order) = opts.range[1].end - opts.range[1].start + 1
        /\ port_order[1] = opts.range[1].start
        /\ port_order[Len(port_order)] = opts.range[1].end
        /\ \A i \in 1..(Len(port_order) - 1) : port_order[i + 1] = port_order[i] + 1

\* C18 witness: the range 3..7 in Serial order.
C18_Witness ==
    /\ pc = "ordered" /\ opts.ports = None /\ opts.scan_order = "Serial"
    /\ opts.range[1] = [start |-> 3, end |-> 7] /\ Len(port_order) = 5

\* C19: for a port list, order() in Random order holds the same ports as the list,
\* each as many times (nothing added, nothing lost), and in Serial order is the list.
C19_ManualKeepsThePorts ==
    (pc = "ordered" /\ opts.ports # None) =>
        /\ port_strategy.kind = "Manual"
        /\ port_order = port_strategy.ports
        /\ Len(port_order) = Len(opts.ports[1])
        /\ \A port \in 1..MaxList : Count(port_order, port) = Count(opts.ports[1], port)
        /\ opts.scan_order = "Serial" => port_order = opts.ports[1]

\* C19 witness: the list 1, 1, 2 in Random order came out as 1, 2, 1.
C19_Witness ==
    /\ pc = "ordered" /\ opts.scan_order = "Random"
    /\ opts.ports = Some(<<1, 1, 2>>) /\ port_order = <<1, 2, 1>>

\* the positions of the strategy's order that hold a port not excluded, and the n-th
Kept == {i \in 1..Len(port_order) : \A e \in 1..Len(exclude_ports) : exclude_ports[e] # port_order[i]}
NthKept(n) == CHOOSE i \in Kept : Cardinality({x \in Kept : x <= i}) = n

\* C20: no probe is spawned for a port of exclude_ports, whatever the strategy, and the
\* ports handed to the socket iterator are the non-excluded ports of the strategy's
\* order, all of them, in their order.
C20_ExcludedNeverProbed ==
    /\ \A k \in 1..Len(log) : \A e \in 1..Len(exclude_ports) :
          log[k].socket.port # exclude_ports[e]
    /\ Len(ports) = Cardinality(Kept)
    /\ \A n \in 1..Len(ports) : ports[n] = port_order[NthKept(n)]

\* C20 witness: a Random strategy ordered 2, 1 with port 1 excluded: port 2 was probed
\* on both IPs and run returned.
C20_Witness ==
    /\ pc = "returned" /\ port_strategy.kind = "Random" /\ exclude_ports = <<1>>
    /\ port_order = <<2, 1>> /\ ports = <<2>> /\ Len(log) = 2

\* C21: the ports handed to the socket iterator hold no port twice, for every port
\* strategy, a Manual one built from a list that repeats a port included.
C21_PortsHandedOnceEach == IsDistinct(ports)

\* what an input string yields: a literal itself, a block every address that agrees with
\* it on the prefix, a name the first address the OS finds or else all that the backup
\* resolver finds, a file what its lines yield
SetOf(seq) == {seq[i] : i \in 1..Len(seq)}
InBlock(ip, addr, prefix) ==
    \E base \in {addr - k : k \in 0..(2 ^ (32 - prefix) - 1)} :
        /\ base % (2 ^ (32 - prefix)) = 0
        /\ base <= ip /\ ip < base + 2 ^ (32 - prefix)
LineYields(a) ==
    CASE a.kind = "ip" -> {a.addr}
      [] a.kind = "cidr" -> {IpAt(i) : i \in {h \in 0..7 : InBlock(IpAt(h), a.addr, a.prefix)}}
      [] a.kind = "host" -> IF a.system # <<>> THEN {a.system[1]} ELSE SetOf(a.backup)
      [] a.kind = "hostport" -> SetOf(a.system)
      [] OTHER -> {}
Yields(a) ==
    IF a.kind = "file"
    THEN (IF a.readable THEN UNION {LineYields(a.lines[i]) : i \in 1..Len(a.lines)} ELSE {})
    ELSE LineYields(a)
Expanded == UNION {Yields(opts.addresses[k]) : k \in 1..Len(opts.addresses)}
ExcludedCidrs == parse_excluded_networks(opts.exclude_addresses)
IsExcluded(ip) ==
    \E c \in 1..Len(ExcludedCidrs) : InBlock(ip, ExcludedCidrs[c].addr, ExcludedCidrs[c].prefix)

\* C22: the list parse_addresses returns holds no IP twice, whatever the inputs repeat:
\* every expanded IP that is not excluded is in it exactly once, and nothing else is.
C22_EveryIpOnce ==
    pc = "parsed" =>
        /\ IsDistinct(ips)
        /\ \A ip \in Expanded : ~IsExcluded(ip) => Count(ips, ip) = 1
        /\ SetOf(ips) \subseteq Expanded

\* C22 witness: a block and a file that names an address of the block and half of the
\* block gave the four addresses of the block.
C22_Witness ==
    /\ pc = "parsed"
    /\ opts.addresses = <<CidrString(0, 30),
                           FileString(<<IpString(1), BadString, CidrString(2, 31)>>, TRUE)>>
    /\ opts.exclude_addresses = None
    /\ ips = <<IpAt(0), IpAt(1), IpAt(2), IpAt(3)>>

\* C23: no IP that parse_addresses returns lies in a parsed exclusion block (an excluded
\* single IP is a block of one address), and every expanded IP that lies in no
\* exclusion block is returned.
C23_ExcludedNeverReturned ==
    pc = "parsed" =>
        /\ \A i \in 1..Len(ips) : ~IsExcluded(ips[i])
        /\ \A ip \in Expanded : ~IsExcluded(ip) => ip \in SetOf(ips)

\* C23 witness: of the block 10.0.0.0/30 with 10.0.0.1 and 10.0.0.2/31 excluded,
\* 10.0.0.0 alone is returned.
C23_Witness ==
    /\ pc = "parsed"
    /\ opts.addresses = <<CidrString(0, 30)>>
    /\ opts.exclude_addresses = Some(<<IpString(1), CidrString(2, 31)>>)
    /\ ips = <<IpAt(0)>>

\* the first input string that yields an IP
FirstYielding(ip) ==
    CHOOSE k \in 1..Len(opts.addresses) :
        /\ ip \in Yields(opts.addresses[k])
        /\ \A j \in 1..(k - 1) : ip \notin Yields(opts.addresses[j])

\* C24 as stated: the IPs follow the order of the input strings, an IP first yielded by
\* an earlier input (literal, block, name or file) stands before every IP first yielded
\* by a later one.
C24_FollowsInputOrder ==
    pc = "parsed" =>
        \A i, j \in 1..Len(ips) :
            FirstYielding(ips[i]) < FirstYielding(ips[j]) => i < j

\* the inputs that are not files, and the first of them (or else the first file) that
\* yields an IP
DirectInputs == {k \in 1..Len(opts.addresses) : opts.addresses[k].kind # "file"}
YieldedDirectly(ip) == \E k \in DirectInputs : ip \in Yields(opts.addresses[k])
FirstYieldingOfItsKind(ip) ==
    CHOOSE k \in 1..Len(opts.addresses) :
        /\ ip \in Yields(opts.addresses[k])
        /\ (k \in DirectInputs) = YieldedDirectly(ip)
        /\ \A j \in 1..(k - 1) :
              ip \in Yields(opts.addresses[j]) => (j \notin DirectInputs /\ k \in DirectInputs)

\* C24 amended: the IPs of the literals, blocks and names come first, in the order of
\* these inputs; the IPs that only files yield come after them, in the order of the
\* files.
C24_DirectInputsThenFiles ==
    pc = "parsed" =>
        \A i, j \in 1..Len(ips) :
            /\ (YieldedDirectly(ips[i]) /\ ~YieldedDirectly(ips[j])) => i < j
            /\ (YieldedDirectly(ips[i]) = YieldedDirectly(ips[j])
                /\ FirstYieldingOfItsKind(ips[i]) < FirstYieldingOfItsKind(ips[j])) => i < j

\* C24 witness: a file given first and a literal given second: the literal's IP is
\* first, the file's IPs follow.
C24_Witness ==
    /\ pc = "parsed"
    /\ opts.addresses = <<FileString(<<IpString(1), BadString, CidrString(2, 31)>>, TRUE),
                           IpString(0)>>
    /\ ips = <<IpAt(0), IpAt(1), IpAt(2), IpAt(3)>>

\* the inputs that are no literal, no block, no name that resolves and no file that can
\* be read, and the others
YieldsNothing(a) == Yields(a) = {} /\ ~(a.kind = "file" /\ a.readable)
YieldsSomething(a) == ~YieldsNothing(a)

\* C25: an input string that yields no IP is warned about and skipped: the IPs returned
\* are those parse_addresses returns for the other inputs alone.
C25_InvalidInputSkipped ==
    pc = "parsed" =>
        /\ warned = SelectSeq(opts.addresses, YieldsNothing)
        /\ ips = parse_addresses(
                     [opts EXCEPT !.addresses = SelectSeq(opts.addresses, YieldsSomething)]).ips

\* C25 witness: a string that is nothing before a block: one warning, and the
\* addresses of the block.
C25_Witness ==
    /\ pc = "parsed"
    /\ opts.addresses = <<BadString, CidrString(1, 31)>>
    /\ warned = <<BadString>>
    /\ ips = <<IpAt(0), IpAt(1)>>

\* C26: with no resolved IP the program exits with code 1 before a Scanner is built and
\* no probe is ever made; with resolved IPs, unless a probe panics, the scan runs and the
\* program completes with code 0, open ports or not.
C26_NoIpsExitsOneElseScanCompletes ==
    /\ [](ips = <<>> => log = <<>> /\ ftrs = {} /\ pc \in {"main", "exited"})
    /\ (pc = "main" /\ ips = <<>>) ~> (pc = "exited" /\ exit_code = Some(EXIT_NO_IPS))
    /\ [][pc' = "exited" /\ ips # <<>> => pc = "returned"]_vars
    /\ (pc = "main" /\ ips # <<>>)
           ~> ((pc = "exited" /\ exit_code = Some(EXIT_OK)) \/ pc = "panicked")

\* C26 witness: two IPs and one port were probed, nothing was open, and the program
\* completed with code 0.
C26_Witness ==
    /\ pc = "exited" /\ exit_code = Some(EXIT_OK)
    /\ Len(ips) = 2 /\ Len(log) = 2 /\ open_sockets = <<>>

\* C27: during run() the error set never holds more than |ips| * 1000 messages: a
\* message is inserted only while the set is below that size and is dropped otherwise,
\* and a dropped message leaves the open sockets as they are: one entry per probe that
\* ended Open.
C27_ErrorsCapped ==
    /\ [](Cardinality(errors) <= Len(ips) * ERRORS_PER_IP)
    /\ [][errors' # errors =>
             /\ Cardinality(errors) < Len(ips) * ERRORS_PER_IP
             /\ Cardinality(errors') = Cardinality(errors) + 1]_vars
    /\ [][Cardinality(errors) = Len(ips) * ERRORS_PER_IP /\ Len(log') > Len(log) =>
             /\ errors' = errors
             /\ open_sockets' \in {open_sockets, Append(open_sockets, log[Len(log)].socket)}]_vars
    /\ [](Len(open_sockets) = Cardinality({k \in 1..Len(log) : log[k].result = "Open"}))

\* C27 witness: the set is full, a probe that failed after that has left it as it was,
\* and a probe that ended Open after that is in the open sockets.
C27_Witness ==
    /\ Cardinality(errors) = Len(ips) * ERRORS_PER_IP
    /\ \E k \in (CapDone + 1)..Len(log) :
          /\ log[k].result = "Error"
          /\ (UDP_TIMED_OUT_PREFIX \o to_string_socket(log[k].socket)) \notin errors
          /\ log[k].last = "recv_timeout"
          /\ k < Len(log) /\ log[k + 1].result = "Open"
          /\ open_sockets = <<log[k + 1].socket>>

\* x <= y, between two usize values
AtMost(x, y) == x = y \/ usize_lt(x, y)

\* C28: the batch size infer_batch_size returns never exceeds the soft limit it was
\* given and never exceeds the requested batch size.
C28_AtMostLimitAndRequest ==
    pc = "inferred" => AtMost(batch_size, ulimit) /\ AtMost(batch_size, opts.batch_size)

\* C28 witness: 50000 requested under a limit of 8001: lowered to 3000.
C28_Witness ==
    /\ pc = "inferred" /\ opts.batch_size = usize(50000)
    /\ ulimit = usize(DEFAULT_FILE_DESCRIPTORS_LIMIT + 1)
    /\ batch_size = usize(AVERAGE_BATCH_SIZE)

\* C29: for every requested batch size and every soft limit infer_batch_size returns a
\* batch size of at least 1.
C29_BatchSizePositive == pc = "inferred" => AtMost(usize(1), batch_size)

\* the batch size of the rule: the request when the limit is not below it, else half
\* the limit below 3000, 3000 above 8000, and the limit less 100 in between
Below(x, n) == \E k \in 0..(n - 1) : x = usize(k)
RuleBatchSize ==
    IF AtMost(opts.batch_size, ulimit) THEN opts.batch_size
    ELSE IF Below(ulimit, AVERAGE_BATCH_SIZE)
    THEN usize((CHOOSE k \in 0..(AVERAGE_BATCH_SIZE - 1) : ulimit = usize(k)) \div 2)
    ELSE IF ~Below(ulimit, DEFAULT_FILE_DESCRIPTORS_LIMIT + 1) THEN usize(AVERAGE_BATCH_SIZE)
    ELSE usize((CHOOSE k \in AVERAGE_BATCH_SIZE..DEFAULT_FILE_DESCRIPTORS_LIMIT : ulimit = usize(k))
               - RESERVED_DESCRIPTORS)

\* C30: infer_batch_size computes the batch size of the rule, for every request and
\* every limit.
C30_ComputesTheRule ==
    pc # "infer" => pc = "inferred" /\ batch_size = RuleBatchSize

\* C30, the part that holds: whenever infer_batch_size returns, it returns the batch
\* size of the rule.
C30_RuleWhenReturned == pc = "inferred" => batch_size = RuleBatchSize

Within(x, lo, hi) == \E k \in lo..hi : x = usize(k)

C32_CommandLineWins ==
    pc = "merged" =>
        /\ \A f \in cli.given : opts[f] = cli.opts[f]
        /\ cli.opts.no_config => opts = cli.opts

\* C32, the part that holds: with no_config merge leaves every option as it was;
\* without it every field the config has takes the config's value (ports only with
\* top), named on the command line or not, and the other fields are as they were.
C32_ConfigWins ==
    pc = "merged" =>
        /\ cli.opts.no_config => opts = cli.opts
        /\ ~cli.opts.no_config =>
              /\ opts.batch_size = (IF config.batch_size = None THEN cli.opts.batch_size
                                    ELSE config.batch_size[1])
              /\ opts.tries = (IF config.tries = None THEN cli.opts.tries ELSE config.tries[1])
              /\ opts.ulimit = (IF config.ulimit = None THEN cli.opts.ulimit ELSE config.ulimit)
              /\ opts.ports = (IF config.ports = None \/ ~cli.opts.top THEN cli.opts.ports
                               ELSE config.ports)
              /\ opts.top = cli.opts.top /\ opts.no_config = cli.opts.no_config

\* the text of a socket of the model as the scanner must print it: 10.0.0.i:p
ExpectedSocketText(socket) ==
    ExpectedIpText(socket.ip) \o <<":">> \o <<DIGITS[socket.port + 1]>>
UdpErrors == {"refused", "emfile"}

\* C33: a UDP probe whose attempt receives a datagram ends with Open; one whose attempt
\* times out goes on to the next attempt while attempts remain; after tries timed-out
\* attempts it reports one Error, the "timed-out for all tries" message of its socket;
\* no probe makes more than tries attempts, and a probe that has ended stays as it is.
C33_UdpRetriesOnTimeout ==
    /\ [](udp => \A k \in 1..Len(log) :
              /\ log[k].n <= tries
              /\ log[k].last = "reply" => log[k].result = "Open"
              /\ log[k].result = "Open" => log[k].last = "reply"
              /\ log[k].last = "recv_timeout" =>
                    IF log[k].n < tries
                    THEN /\ log[k].result = "pending"
                         /\ \E p \in ftrs : p.id = k /\ p.nr_try = log[k].n + 1
                    ELSE /\ log[k].result = "Error"
                         /\ (UDP_TIMED_OUT_PREFIX \o ExpectedSocketText(log[k].socket)) \in errors)
    /\ [][udp => \A k \in 1..Len(log) :
              /\ log[k].result # "pending" => log'[k] = log[k]
              /\ log'[k].n # log[k].n =>
                    log'[k].n = log[k].n + 1 /\ log[k].last \in {"none", "recv_timeout"}]_vars

\* C33 witness: with two tries, one probe timed out twice and reported the timed-out
\* Error, and one timed out once and then received a datagram.
C33_Witness ==
    /\ udp /\ tries = 2
    /\ \E k \in 1..Len(log) :
          log[k].n = 2 /\ log[k].last = "recv_timeout" /\ log[k].result = "Error"
    /\ \E k \in 1..Len(log) :
          log[k].n = 2 /\ log[k].last = "reply" /\ log[k].result = "Open"

\* C34: a UDP probe whose attempt fails with an I/O error that is no receive timeout has
\* ended with that Error at that attempt, whatever attempts remain: it is in the pool no
\* more and its error is the text of that I/O error.
C34_UdpErrorEndsProbe ==
    udp => \A k \in 1..Len(log) : log[k].last \in UdpErrors =>
        /\ log[k].result = "Error"
        /\ ~\E p \in ftrs : p.id = k
        /\ error_to_string(log[k].last) \in errors

\* C34 witness: with two tries, a probe ended in Error at its first attempt, which was
\* refused.
C34_Witness ==
    /\ udp /\ tries = 2
    /\ \E k \in 1..Len(log) :
          log[k].n = 1 /\ log[k].last = "refused" /\ log[k].result = "Error"

\* a and b have no common divisor above 1 (every number divides 0)
Coprime(a, b) ==
    ~\E d \in 2..(IF a > b THEN a ELSE b) : a % d = 0 /\ b % d = 0

\* C35: the step RangeIterator::new took from pick_random_coprime for a range of
\* N = end - start + 1 >= 1 ports is coprime with N, and it is either a number of
\* [N/4, N - N/4) or the fallback N - 1.
C35_StepIsCoprime ==
    (pc = "range" /\ range_iterator # None) =>
        LET N == opts.range[1].end - opts.range[1].start + 1
            step == range_iterator[1].step
        IN  /\ N >= 1
            /\ Coprime(N, step)
            /\ \/ step >= N \div 4 /\ step < N - N \div 4
               \/ step = N - 1

\* C35 witness: for nine ports the draws failed (3 and 6 are candidates) and the step
\* is the fallback 8, which is no candidate; the iterator has emitted a port with it.
C35_Witness ==
    /\ pc = "range" /\ range_iterator # None
    /\ opts.range[1].end - opts.range[1].start + 1 = 9
    /\ range_iterator[1].step = 8
    /\ Len(emitted) >= 1

\* the keys of the table that contain the port of the probe
MatchingKeys == {k \in DOMAIN udp_map : \E i \in 1..Len(k) : k[i] = udp_port}

\* C36: the payload of a UDP probe is empty when no key of the table contains its port,
\* and otherwise the payload of the matching key that is last in the order of the
\* table, which for one matching key is that key.
C36_PayloadOfLastMatchingKey ==
    pc = "payload_set" =>
        IF MatchingKeys = {} THEN payload = Some(<<>>)
        ELSE \E k \in MatchingKeys :
                /\ \A j \in MatchingKeys : j = k \/ vec_lt(j, k)
                /\ payload = Some(udp_map[k])

\* C36 witness: three keys contain the port, <<1>>, <<1, 2>> and <<2, 1>>; the last in
\* the order, <<2, 1>>, has another payload than the two before it, and that payload
\* is the one the probe sends.
C36_Witness ==
    /\ pc = "payload_set" /\ udp_port = 1
    /\ MatchingKeys = {<<1>>, <<1, 2>>, <<2, 1>>}
    /\ udp_map[<<1>>] = <<1>> /\ udp_map[<<1, 2>>] = <<1>> /\ udp_map[<<2, 1>>] = <<2>>
    /\ payload = Some(<<2>>)

\* the socket at position k of the scan, ports outer and ips inner
TargetAt(k) == [ip |-> ips[((k - 1) % Len(ips)) + 1],
                port |-> ports[((k - 1) \div Len(ips)) + 1]]
Successes == {"ok", "reply"}

\* C37: what run returns is fixed by the outcomes of the probes alone. With
\* batch_size >= 1, whatever the size of the pool and the order of the completions, the
\* probe at every position of the scan has run to its end, and the list returned holds
\* each socket as many times as positions of that socket had a probe whose last attempt
\* succeeded: the pool and the scheduling decide the order of the list only.
C37_ContentsFixedByOutcomes ==
    (pc = "returned" /\ batch_size >= 1) =>
        /\ Len(log) = Targets
        /\ \A k \in 1..Len(log) : log[k].socket = TargetAt(k) /\ log[k].last # "none"
        /\ Len(open_sockets) = Cardinality({k \in 1..Targets : log[k].last \in Successes})
        /\ \A i \in 1..Len(open_sockets) :
              Count(open_sockets, open_sockets[i])
                = Cardinality({k \in 1..Targets : /\ TargetAt(k) = open_sockets[i]
                                                  /\ log[k].last \in Successes})

\* C37 witness: with a pool of two, two different sockets are returned in the order in
\* which their probes completed, the reverse of the order in which they were spawned.
C37_Witness ==
    /\ pc = "returned" /\ batch_size = 2 /\ Len(open_sockets) = 2
    /\ \E j, k \in 1..Len(log) :
          /\ j < k /\ log[j].socket # log[k].socket
          /\ open_sockets = <<log[k].socket, log[j].socket>>

\* C38: the batch_size the Scanner was built with is kept as it is, 0 included, and
\* with batch_size = 0 run spawns no probe at any time: the initial fill ends at once,
\* the empty pool yields no completion, and run returns the empty list, also when the
\* socket iterator has sockets left.
C38_ZeroBatchReturnsEmpty ==
    /\ [][batch_size' = batch_size]_vars
    /\ [](batch_size = 0 => log = <<>> /\ ftrs = {} /\ open_sockets = <<>> /\ errors = {})
    /\ [][batch_size = 0 /\ pc = "fill" => pc' = "poll" /\ fill_i' = 0]_vars
    /\ [][batch_size = 0 /\ pc = "poll" => pc' = "returned"]_vars

\* C38 witness: run has returned the empty list with batch_size = 0, no probe spawned
\* and four sockets left in the iterator.
C38_Witness ==
    /\ pc = "returned" /\ batch_size = 0
    /\ Targets = 4 /\ HasNext
    /\ log = <<>> /\ open_sockets = <<>>

\* C39: infer_batch_size overflows in no addition and no subtraction, for every soft
\* limit and every requested batch size: no call ends in the panic of an overflow
\* check.
C39_NoOverflow == pc # "panicked"

\* C39, the part that holds: the subtraction of the lowered branch never overflows; a
\* call that panics took the other branch, with no --ulimit given, and its limit is
\* below 100 or within 1 of usize::MAX.
C39_OverflowOnlyInTheHint ==
    pc = "panicked" =>
        /\ AtMost(opts.batch_size, ulimit)
        /\ \/ Below(ulimit, RESERVED_DESCRIPTORS) /\ opts.ulimit = None
           \/ ulimit \in {USIZE_MAX, usize_sub(USIZE_MAX, usize(1)).value}

\* a first pick from which start leads to a port: start + pick, modulo 2^32, is at most
\* u16::MAX
LeadsToPort(start, first_pick) ==
    \/ first_pick[1] = 0 /\ first_pick[2] <= (LIMB - 1) - start
    \/ first_pick[1] = LIMB - 1 /\ first_pick[2] >= LIMB - start

\* C40 as stated: for a range with start > end Serial yields the empty sequence; Random
\* yields no sequence and fails with an arithmetic overflow or, where the subtraction
\* wraps, with the conversion failure at its first emission.
C40_RandomFailsAtFirstEmission ==
    /\ port_strategy.kind = "Serial" /\ pc = "ordered" => port_order = <<>>
    /\ port_strategy.kind = "Random" =>
          /\ pc \in {"order", PANIC_SUBTRACT, PANIC_ADD, PANIC_CONVERT}
          /\ pc = PANIC_CONVERT => ~opts.overflow_checks
          /\ emitted = <<>>

\* C40, amended: for a range with start > end Serial yields the empty sequence and
\* Random yields no sequence. With overflow checks RangeIterator::new panics in the
\* subtraction. Without them N wraps: to 0 when start = end + 1, and then the draw of
\* the step from the empty range 0..0 panics; else to 2^32 - (start - end) + 1, and
\* then the conversion to u16 fails, at the first emission unless the first pick is one
\* from which start leads to a port, and later if it is.
C40_ReversedRandomFails ==
    /\ port_strategy.kind = "Serial" => pc \in {"order", "ordered"}
    /\ port_strategy.kind = "Serial" /\ pc = "ordered" => port_order = <<>>
    /\ port_strategy.kind = "Random" =>
          LET start == port_strategy.start
              end == port_strategy.end
          IN  /\ pc # "ordered"
              /\ opts.overflow_checks =>
                    pc \in {"order", PANIC_SUBTRACT} /\ range_iterator = None
              /\ ~opts.overflow_checks /\ start = end + 1 =>
                    pc \in {"order", PANIC_EMPTY_RANGE} /\ range_iterator = None
              /\ ~opts.overflow_checks /\ start > end + 1 =>
                    /\ pc \in {"order", PANIC_CONVERT}
                    /\ pc = PANIC_CONVERT => range_iterator # None
                    /\ range_iterator # None =>
                          /\ range_iterator[1].normalized_end
                                = <<LIMB - 1, LIMB - (start - end) + 1>>
                          /\ emitted # <<>> =>
                                LeadsToPort(start, range_iterator[1].normalized_first_pick)
                          /\ pc = PANIC_CONVERT /\ emitted = <<>> =>
                                ~LeadsToPort(start, range_iterator[1].normalized_first_pick)

\* C40 witness: without overflow checks, Random over 5-3 has N = 2^32 - 1 and a first
\* pick of 65531, and the conversion failed at the first emission.
C40_Witness ==
    /\ port_strategy = Random(5, 3) /\ ~opts.overflow_checks
    /\ range_iterator # None
    /\ range_iterator[1].normalized_end = <<LIMB - 1, LIMB - 1>>
    /\ range_iterator[1].normalized_first_pick = u32(65531)
    /\ pc = PANIC_CONVERT /\ emitted = <<>>

====
